---- MODULE Spec2Model ----
(***************************************************************************)
(* BMAD memory system: the pre-storage validators (validate_storage.py,    *)
(* validate_metadata.py, check_duplicates.py), the shard model and the     *)
(* store / hook / token-budget functions of src/core/memory.               *)
(*                                                                         *)
(* Strings that the code inspects character by character (unique_id,      *)
(* type, messages) are TLA+ strings and are inspected the same way.        *)
(* A content string is a sequence of segments; each segment carries the    *)
(* characters it stands for (s), their number (len) and what the           *)
(* validators' regular expressions find in it.                             *)
(***************************************************************************)
EXTENDS Integers, Sequences, FiniteSets, TLC

VARIABLES store, now, last

vars == <<store, now, last>>

(***************************************************************************)
(* Bounds of the model.                                                    *)
(***************************************************************************)
MaxPoints == 2
MaxDay == 1
MaxMinute == 1
MaxResults == 4

(***************************************************************************)
(* str operations of Python used by the code.                              *)
(***************************************************************************)
Min(a, b) == IF a <= b THEN a ELSE b

StartsWith(s, p) == Len(s) >= Len(p) /\ SubSeq(s, 1, Len(p)) = p

Contains(s, n) == \E i \in 1..(Len(s) - Len(n) + 1) : SubSeq(s, i, i + Len(n) - 1) = n

LowerLetters == "abcdefghijklmnopqrstuvwxyz"
UpperLetters == "ABCDEFGHIJKLMNOPQRSTUVWXYZ"

UpperChar(c) ==
    IF \E i \in 1..26 : SubSeq(LowerLetters, i, i) = c
    THEN LET i == CHOOSE j \in 1..26 : SubSeq(LowerLetters, j, j) = c
         IN SubSeq(UpperLetters, i, i)
    ELSE c

(* s.upper(), computed by halves *)
RECURSIVE Upper(_)
Upper(s) ==
    IF Len(s) = 0 THEN ""
    ELSE IF Len(s) = 1 THEN UpperChar(s)
    ELSE LET h == Len(s) \div 2
         IN Upper(SubSeq(s, 1, h)) \o Upper(SubSeq(s, h + 1, Len(s)))

RECURSIVE Join(_, _)
Join(sep, parts) ==
    IF Len(parts) = 0 THEN ""
    ELSE IF Len(parts) = 1 THEN parts[1]
    ELSE parts[1] \o sep \o Join(sep, Tail(parts))

Digits == "0123456789"
IsDigit(c) == \E i \in 1..10 : SubSeq(Digits, i, i) = c
DigitVal(c) == (CHOOSE i \in 1..10 : SubSeq(Digits, i, i) = c) - 1
AllDigits(s) == \A i \in 1..Len(s) : IsDigit(SubSeq(s, i, i))
RECURSIVE IntOf(_)
IntOf(s) == IF Len(s) = 0 THEN 0
            ELSE 10 * IntOf(SubSeq(s, 1, Len(s) - 1)) + DigitVal(SubSeq(s, Len(s), Len(s)))

(* f"{n:02d}" for 0 <= n < 100 *)
Pad2(n) == SubSeq(Digits, (n \div 10) + 1, (n \div 10) + 1) \o SubSeq(Digits, (n % 10) + 1, (n % 10) + 1)

(* f"{n:,}" *)
RECURSIVE Commas(_)
Commas(n) ==
    IF n < 1000 THEN ToString(n)
    ELSE Commas(n \div 1000) \o "," \o SubSeq(Digits, ((n % 1000) \div 100) + 1, ((n % 1000) \div 100) + 1)
         \o Pad2(n % 100)

(* dict.get(key, default) *)
Get(d, key, default) == IF key \in DOMAIN d THEN d[key] ELSE default

(***************************************************************************)
(* Content strings.                                                        *)
(***************************************************************************)
Lit(s) == <<[s |-> s, len |-> Len(s), ref |-> "none", marks |-> {}, code |-> 0]>>

RECURSIVE TextLen(_)
TextLen(t) == IF Len(t) = 0 THEN 0 ELSE t[1].len + TextLen(Tail(t))

RECURSIVE TextBytes(_)
TextBytes(t) == IF Len(t) = 0 THEN "" ELSE t[1].s \o TextBytes(Tail(t))

(* t[:n]; a segment cut in the middle keeps its first characters only *)
RECURSIVE Slice(_, _)
Slice(t, n) ==
    IF Len(t) = 0 \/ n <= 0 THEN <<>>
    ELSE IF t[1].len <= n THEN <<t[1]>> \o Slice(Tail(t), n - t[1].len)
    ELSE <<[s |-> t[1].s \o "[:cut]", len |-> n, ref |-> "none", marks |-> {}, code |-> 0]>>

(* hashlib.sha256(content.encode("utf-8")).hexdigest(): one digest per byte string *)
Sha256(t) == "sha256:" \o TextBytes(t)

(***************************************************************************)
(* The clock: datetime.now().                                              *)
(***************************************************************************)
(* strftime('%Y%m%d'), strftime('%Y%m%d%H%M') and isoformat() of the clock *)
StrfYmd(t) == "202601" \o Pad2(4 + t.day)
StrfYmdHM(t) == StrfYmd(t) \o "10" \o Pad2(t.minute)
IsoFormat(t) == "2026-01-" \o Pad2(4 + t.day) \o "T10:" \o Pad2(t.minute) \o ":00"

(***************************************************************************)
(* models.py                                                               *)
(***************************************************************************)
MemoryType == {"architecture_decision", "story_outcome", "error_pattern", "requirement",
               "implementation_detail", "test_strategy", "lesson_learned",
               "decision_rationale", "chat_memory", "best_practice", "session_summary"}

AgentName == {"analyst", "architect", "dev", "pm", "sm", "tea", "tech-writer",
              "ux-designer", "quick-flow-solo-dev"}

ImportanceLevel == {"critical", "high", "medium", "low"}

NoneVal == "<None>"

ShardMinTokens == 50
ShardMaxTokens == 500
SessionSummaryMaxTokens == 1500

IsLeap(y) == (y % 4 = 0 /\ y % 100 # 0) \/ y % 400 = 0
DaysInMonth(y, m) == IF m = 2 THEN (IF IsLeap(y) THEN 29 ELSE 28)
                     ELSE IF m \in {4, 6, 9, 11} THEN 30 ELSE 31

TimeOk(s) ==
    /\ Len(s) \in {2, 5, 8}
    /\ AllDigits(SubSeq(s, 1, 2)) /\ IntOf(SubSeq(s, 1, 2)) <= 23
    /\ Len(s) >= 5 => /\ SubSeq(s, 3, 3) = ":"
                      /\ AllDigits(SubSeq(s, 4, 5)) /\ IntOf(SubSeq(s, 4, 5)) <= 59
    /\ Len(s) >= 8 => /\ SubSeq(s, 6, 6) = ":"
                      /\ AllDigits(SubSeq(s, 7, 8)) /\ IntOf(SubSeq(s, 7, 8)) <= 59

(* datetime.fromisoformat(s) does not raise: YYYY-MM-DD[*HH[:MM[:SS]]] *)
FromIsoFormatOk(s) ==
    /\ Len(s) >= 10
    /\ AllDigits(SubSeq(s, 1, 4)) /\ SubSeq(s, 5, 5) = "-"
    /\ AllDigits(SubSeq(s, 6, 7)) /\ SubSeq(s, 8, 8) = "-"
    /\ AllDigits(SubSeq(s, 9, 10))
    /\ LET y == IntOf(SubSeq(s, 1, 4))
           m == IntOf(SubSeq(s, 6, 7))
           d == IntOf(SubSeq(s, 9, 10))
       IN y >= 1 /\ m \in 1..12 /\ d >= 1 /\ d <= DaysInMonth(y, m)
    /\ Len(s) > 10 => (Len(s) >= 13 /\ TimeOk(SubSeq(s, 12, Len(s))))

PostInitOk_OneCeiling(content, type, created_at) ==
    /\ ~(TextLen(content) < 4 * ShardMinTokens)
    /\ ~(TextLen(content) > 4 * SessionSummaryMaxTokens)
    /\ FromIsoFormatOk(created_at)

(* MemoryShard.__post_init__ returns without raising.  token_estimate is
   char_count / 4, a float: the comparisons are made on char_count * 1 and
   the bounds * 4, which is the same comparison without rounding. *)
PostInitOk(content, type, created_at) ==
    LET char_count == TextLen(content)
        max_tokens == IF type = "session_summary" THEN SessionSummaryMaxTokens ELSE ShardMaxTokens
    IN /\ ~(char_count < 4 * ShardMinTokens)
       /\ ~(char_count > 4 * max_tokens)
       /\ FromIsoFormatOk(created_at)

MemoryShard(id, content, unique_id, group_id, type, agent, component, importance, created_at, story_id, epic_id, tags) ==
    [id |-> id, content |-> content, unique_id |-> unique_id, group_id |-> group_id,
     type |-> type, agent |-> agent, component |-> component, importance |-> importance,
     created_at |-> created_at, story_id |-> story_id, epic_id |-> epic_id, tags |-> tags]

to_payload(shard) ==
    [content |-> shard.content, unique_id |-> shard.unique_id, group_id |-> shard.group_id,
     type |-> shard.type, agent |-> shard.agent, component |-> shard.component,
     importance |-> shard.importance, created_at |-> shard.created_at,
     story_id |-> shard.story_id, epic_id |-> shard.epic_id, tags |-> shard.tags]

(***************************************************************************)
(* config.py and the collections of the vector store.                      *)
(***************************************************************************)
KNOWLEDGE_COLLECTION == "bmad-knowledge"
BEST_PRACTICES_COLLECTION == "bmad-best-practices"
AGENT_MEMORY_COLLECTION == "agent-memory"

COLLECTIONS_TO_CHECK == <<KNOWLEDGE_COLLECTION, BEST_PRACTICES_COLLECTION, AGENT_MEMORY_COLLECTION>>

Collections == {KNOWLEDGE_COLLECTION, BEST_PRACTICES_COLLECTION, AGENT_MEMORY_COLLECTION}

CollectionType == {"knowledge", "best_practices", "agent_memory"}

ConfigGroupId == "bmad-qdrant-integration"

(* collection_map.get(collection_type, <knowledge collection>) of memory_store.py *)
collection_map(collection_type) ==
    CASE collection_type = "bmad_knowledge" -> KNOWLEDGE_COLLECTION
      [] collection_type = "agent_memory" -> AGENT_MEMORY_COLLECTION
      [] collection_type = "best_practices" -> BEST_PRACTICES_COLLECTION
      [] OTHER -> KNOWLEDGE_COLLECTION

PointIds == 1..MaxPoints

AllPoints == UNION {store[c] : c \in Collections}

UsedIds == {p.id : p \in AllPoints}

(* client.upsert(collection_name, points, wait=True) *)
Upsert(st, collection_name, points) ==
    [st EXCEPT ![collection_name] =
        {p \in st[collection_name] : \A q \in points : q.id # p.id} \cup points]

(* the points of a sequence of shards as store_memory / store_batch build them *)
PointsOf(shards) == {[id |-> shards[i].id, payload |-> to_payload(shards[i])] : i \in 1..Len(shards)}

(***************************************************************************)
(* JSON values of a metadata mapping: str, a str of n characters given by  *)
(* its length only, int, None, list, and d lists nested in one another     *)
(* given by d only ([[[...[]...]]]).                                       *)
(***************************************************************************)
S(s) == [t |-> "str", v |-> s]
BigStr(n) == [t |-> "bigstr", n |-> n]
L(items) == [t |-> "list", v |-> items]
Nest(d) == [t |-> "nested", d |-> d]
PyNone == [t |-> "none"]
Num(n) == [t |-> "int", v |-> n]

(* bool(v), len(v), f"{v}" *)
Truthy(x) == CASE x.t = "str" -> x.v # ""
               [] x.t = "none" -> FALSE
               [] x.t = "int" -> x.v # 0
               [] x.t = "bigstr" -> x.n > 0
               [] x.t = "list" -> Len(x.v) > 0
               [] x.t = "nested" -> x.d > 1
PyLen(x) == CASE x.t = "str" -> Len(x.v)
              [] x.t = "bigstr" -> x.n
              [] x.t = "list" -> Len(x.v)
              [] x.t = "nested" -> IF x.d > 1 THEN 1 ELSE 0
Fmt(x) == CASE x.t = "str" -> x.v
            [] x.t = "int" -> ToString(x.v)
            [] x.t = "none" -> "None"
            [] x.t = "bigstr" -> "<" \o ToString(x.n) \o " characters>"
            [] x.t = "list" -> "[...]"
            [] x.t = "nested" -> "[...]"

(* x is a str; len(x) raises TypeError; x is unhashable as a dict key *)
IsStr(x) == x.t \in {"str", "bigstr"}
LenRaises(x) == x.t \in {"int", "none"}
Unhashable(x) == x.t \in {"list", "nested"}

(* x in <list of str> *)
InList(x, list) == x.t = "str" /\ \E i \in 1..Len(list) : list[i] = x.v

(* len(json.dumps(x)) for ASCII strings without escapes *)
RECURSIVE JsonLen(_)
RECURSIVE JsonItemsLen(_)
JsonLen(x) == CASE x.t = "str" -> Len(x.v) + 2
                [] x.t = "int" -> Len(ToString(x.v))
                [] x.t = "none" -> 4
                [] x.t = "bigstr" -> x.n + 2
                [] x.t = "list" -> 2 + JsonItemsLen(x.v)
                [] x.t = "nested" -> 2 * x.d
JsonItemsLen(items) ==
    IF Len(items) = 0 THEN 0
    ELSE JsonLen(items[1]) + (IF Len(items) > 1 THEN 2 ELSE 0) + JsonItemsLen(Tail(items))

RECURSIVE SumOver(_, _)
SumOver(f, keys) ==
    IF keys = {} THEN 0
    ELSE LET k == CHOOSE x \in keys : TRUE IN f[k] + SumOver(f, keys \ {k})

(* len(json.dumps(metadata)): {"k": v, "k2": v2} *)
JsonDumpsLen(metadata) ==
    LET keys == DOMAIN metadata
        n == Cardinality(keys)
    IN 2 + SumOver([k \in keys |-> Len(k) + 2 + 2 + JsonLen(metadata[k])], keys)
         + (IF n > 1 THEN 2 * (n - 1) ELSE 0)

(***************************************************************************)
(* validate_metadata.py                                                    *)
(***************************************************************************)
REQUIRED_FIELDS == <<"unique_id", "type", "component", "importance", "created_at", "agent", "group_id">>

VALID_TYPES == <<"architecture_decision", "agent_spec", "story_outcome", "error_pattern",
                 "database_schema", "config_pattern", "integration_example",
                 "best_practice", "chat_memory">>

VALID_IMPORTANCE == <<"critical", "high", "medium", "low">>

VALID_AGENTS == <<"architect", "analyst", "pm", "dev", "tea", "tech-writer", "ux-designer",
                  "quick-flow-solo-dev", "sm">>

MAX_JSON_DEPTH == 100
MAX_JSON_SIZE == 1000000

(* [f for f in REQUIRED_FIELDS if f not in metadata] *)
MissingFields(metadata) == SelectSeq(REQUIRED_FIELDS, LAMBDA f : f \notin DOMAIN metadata)

(* re.match(r"^\d{4}-\d{2}-\d{2}", created_at) *)
MatchesIsoDatePrefix(s) ==
    /\ Len(s) >= 10
    /\ AllDigits(SubSeq(s, 1, 4)) /\ SubSeq(s, 5, 5) = "-"
    /\ AllDigits(SubSeq(s, 6, 7)) /\ SubSeq(s, 8, 8) = "-"
    /\ AllDigits(SubSeq(s, 9, 10))

JsonTooDeep == "JSON too deeply nested (max: " \o ToString(MAX_JSON_DEPTH)
               \o " levels). This prevents ReDoS attacks."

(* validate_json_safety(obj, depth) of a list or scalar: (is_valid, errors) *)
RECURSIVE validate_json_safety_value(_, _)
RECURSIVE validate_json_safety_items(_, _)
validate_json_safety_value(obj, depth) ==
    IF depth > MAX_JSON_DEPTH THEN <<FALSE, <<JsonTooDeep>>>>
    ELSE IF obj.t = "list" THEN validate_json_safety_items(obj.v, depth + 1)
    ELSE IF obj.t = "nested" /\ depth + obj.d - 1 > MAX_JSON_DEPTH
    THEN <<FALSE, <<JsonTooDeep>>>>
    ELSE <<TRUE, <<>>>>
validate_json_safety_items(items, depth) ==
    IF Len(items) = 0 THEN <<TRUE, <<>>>>
    ELSE LET r == validate_json_safety_value(items[1], depth)
         IN IF ~r[1] THEN r ELSE validate_json_safety_items(Tail(items), depth)

(* validate_json_safety(metadata): the dict at depth 0, its values at depth 1 *)
validate_json_safety(metadata) ==
    IF \E k \in DOMAIN metadata : ~validate_json_safety_value(metadata[k], 1)[1]
    THEN <<FALSE, <<JsonTooDeep>>>>
    ELSE <<TRUE, <<>>>>

validate_required_fields(metadata) ==
    LET missing == MissingFields(metadata)
        errors == IF Len(missing) > 0
                  THEN <<"Missing required fields: " \o Join(", ", missing)>> ELSE <<>>
    IN <<Len(errors) = 0, errors>>

validate_type(metadata) ==
    LET memory_type == Get(metadata, "type", S(""))
        errors == IF ~InList(memory_type, VALID_TYPES)
                  THEN <<"Invalid type '" \o Fmt(memory_type) \o "'. Must be one of: "
                         \o Join(", ", VALID_TYPES)>>
                  ELSE <<>>
    IN <<Len(errors) = 0, errors>>

validate_importance(metadata) ==
    LET importance == Get(metadata, "importance", S(""))
        errors == IF ~InList(importance, VALID_IMPORTANCE)
                  THEN <<"Invalid importance '" \o Fmt(importance) \o "'. Must be: "
                         \o Join(", ", VALID_IMPORTANCE)>>
                  ELSE <<>>
    IN <<Len(errors) = 0, errors>>

validate_agent(metadata) ==
    LET agent == Get(metadata, "agent", S(""))
        errors == IF ~Truthy(agent)
                  THEN <<"Missing agent field - required for all memory types">>
                  ELSE IF ~InList(agent, VALID_AGENTS)
                  THEN <<"Invalid agent '" \o Fmt(agent) \o "'. Must be one of: "
                         \o Join(", ", VALID_AGENTS)>>
                  ELSE <<>>
    IN <<Len(errors) = 0, errors>>

validate_group_id(metadata) ==
    LET group_id == Get(metadata, "group_id", S(""))
        errors == IF ~Truthy(group_id)
                  THEN <<"Missing group_id field - required for multitenancy">>
                  ELSE IF PyLen(group_id) < 3
                  THEN <<"group_id '" \o Fmt(group_id) \o "' too short (min 3 characters)">>
                  ELSE <<>>
    IN <<Len(errors) = 0, errors>>

expected_prefixes(memory_type) ==
    CASE memory_type = S("architecture_decision") -> <<"arch-", "arch-decision-">>
      [] memory_type = S("agent_spec") -> <<"agent-">>
      [] memory_type = S("story_outcome") -> <<"story-">>
      [] memory_type = S("error_pattern") -> <<"error-">>
      [] memory_type = S("database_schema") -> <<"schema-">>
      [] memory_type = S("config_pattern") -> <<"config-">>
      [] memory_type = S("integration_example") -> <<"integration-">>
      [] memory_type = S("best_practice") -> <<"bp-">>
      [] memory_type = S("chat_memory") -> <<"chat-">>
      [] OTHER -> <<>>

(* validate_unique_id(metadata): (len(errors) == 0, errors + warnings) *)
validate_unique_id(metadata) ==
    LET unique_id == Get(metadata, "unique_id", S(""))
        memory_type == Get(metadata, "type", S(""))
        errors == IF PyLen(unique_id) < 5
                  THEN <<"unique_id '" \o Fmt(unique_id) \o "' too short (min 5 characters)">>
                  ELSE <<>>
        prefixes == expected_prefixes(memory_type)
        matches_prefix == \E i \in 1..Len(prefixes) : StartsWith(Fmt(unique_id), prefixes[i])
        warnings == IF Len(prefixes) > 0 /\ ~matches_prefix
                    THEN <<"unique_id '" \o Fmt(unique_id)
                           \o "' doesn't follow expected format for '" \o Fmt(memory_type)
                           \o "'. Expected prefix: " \o Join(" or ", prefixes)>>
                    ELSE <<>>
    IN IF ~Truthy(unique_id) THEN <<FALSE, <<"Missing unique_id field">>>>
       ELSE <<Len(errors) = 0, errors \o warnings>>

validate_created_at(metadata) ==
    LET created_at == Get(metadata, "created_at", S(""))
    IN IF ~Truthy(created_at) THEN <<FALSE, <<"Missing created_at field">>>>
       ELSE IF ~MatchesIsoDatePrefix(Fmt(created_at))
       THEN <<FALSE, <<"created_at '" \o Fmt(created_at)
                       \o "' must be ISO 8601 format (YYYY-MM-DD)">>>>
       ELSE <<TRUE, <<>>>>

validate_component(metadata) ==
    LET component == Get(metadata, "component", S(""))
        errors == IF ~Truthy(component) THEN <<"Missing component field">>
                  ELSE IF PyLen(component) < 2
                  THEN <<"component '" \o Fmt(component) \o "' too short (min 2 characters)">>
                  ELSE <<>>
    IN <<Len(errors) = 0, errors>>

(* a field validator of validate_metadata_complete raises: len() of an int
   in validate_group_id, validate_unique_id and validate_component, a list
   as the key of expected_prefixes.get, startswith of a list, and re.match
   on a value that is not a str in validate_created_at *)
validate_metadata_complete_raises(metadata) ==
    LET group_id == Get(metadata, "group_id", S(""))
        unique_id == Get(metadata, "unique_id", S(""))
        memory_type == Get(metadata, "type", S(""))
        created_at == Get(metadata, "created_at", S(""))
        component == Get(metadata, "component", S(""))
    IN /\ JsonDumpsLen(metadata) <= MAX_JSON_SIZE
       /\ validate_json_safety(metadata)[1]
       /\ \/ Truthy(group_id) /\ LenRaises(group_id)
          \/ /\ Truthy(unique_id)
             /\ \/ LenRaises(unique_id)
                \/ Unhashable(memory_type)
                \/ Len(expected_prefixes(memory_type)) > 0 /\ ~IsStr(unique_id)
          \/ Truthy(created_at) /\ ~IsStr(created_at)
          \/ Truthy(component) /\ LenRaises(component)

(* the test of validate_metadata_complete that files a message of
   validate_unique_id under errors *)
IsErrorMessage(msg) ==
    LET up == Upper(msg)
    IN Contains(up, "ERROR") \/ Contains(up, "MISSING") \/ Contains(up, "TOO SHORT")

(* details["errors"].extend(errors) when the check is not valid *)
ExtendIfInvalid(list, r) == IF ~r[1] THEN list \o r[2] ELSE list

(* validate_metadata_complete(metadata): (is_valid, details) *)
validate_metadata_complete(metadata) ==
    LET json_len == JsonDumpsLen(metadata)
        safety == validate_json_safety(metadata)
        uid == validate_unique_id(metadata)
        e1 == ExtendIfInvalid(<<>>, validate_required_fields(metadata))
        e2 == ExtendIfInvalid(e1, validate_type(metadata))
        e3 == ExtendIfInvalid(e2, validate_importance(metadata))
        e4 == ExtendIfInvalid(e3, validate_agent(metadata))
        e5 == ExtendIfInvalid(e4, validate_group_id(metadata))
        e6 == e5 \o SelectSeq(uid[2], IsErrorMessage)
        w6 == SelectSeq(uid[2], LAMBDA m : ~IsErrorMessage(m))
        e7 == ExtendIfInvalid(e6, validate_created_at(metadata))
        e8 == ExtendIfInvalid(e7, validate_component(metadata))
    IN IF json_len > MAX_JSON_SIZE
       THEN <<FALSE, [errors |-> <<"Metadata too large (" \o Commas(json_len)
                                   \o " bytes). Maximum: " \o Commas(MAX_JSON_SIZE)
                                   \o " bytes.">>,
                      warnings |-> <<>>, checks_performed |-> <<>>]>>
       ELSE IF ~safety[1]
       THEN <<FALSE, [errors |-> safety[2], warnings |-> <<>>,
                      checks_performed |-> <<"json_safety">>]>>
       ELSE <<Len(e8) = 0,
              [errors |-> e8, warnings |-> w6,
               checks_performed |-> <<"json_safety", "required_fields", "type", "importance",
                                      "agent", "group_id", "unique_id", "created_at",
                                      "component">>]>>

(***************************************************************************)
(* The vector store as the validators see it.                              *)
(***************************************************************************)
(* points of a collection in the order scroll returns them (by point id) *)
RECURSIVE SortById(_)
SortById(points) ==
    IF points = {} THEN <<>>
    ELSE LET p == CHOOSE x \in points : \A y \in points : x.id <= y.id
         IN <<p>> \o SortById(points \ {p})

(* the page size of every scroll call of the validators (limit=500), scaled
   to the size of the model's store *)
ScrollLimit == 1

(* client.scroll(collection_name, limit, with_payload=True)[0]: the first page *)
Scroll(st, coll_name, limit) ==
    LET all == SortById(st[coll_name])
    IN SubSeq(all, 1, Min(limit, Len(all)))

(* what a lookup of one collection does: returns, raises "... not found ...",
   or raises another error *)
LookupStatus == {"ok", "not_found", "error"}

(***************************************************************************)
(* validate_storage.py                                                     *)
(***************************************************************************)
MIN_CONTENT_LENGTH == 100
MAX_CONTENT_LENGTH == 50000
MAX_TOKENS_PER_SHARD == 300

(* SIMILARITY_THRESHOLD = 0.85, in thousandths *)
SIMILARITY_THRESHOLD == 850

(* the f-string forms of a similarity: f"{x:.2f}" *)
Fixed2(thousandths) ==
    LET h == (thousandths + 5) \div 10
    IN ToString(h \div 100) \o "." \o Pad2(h % 100)

(* repr of a list of str *)
ListRepr(list) ==
    "[" \o Join(", ", [i \in 1..Len(list) |-> "'" \o list[i] \o "'"]) \o "]"

get_qdrant_client_AlwaysConnected(env) == <<"client", NoneVal>>

(* get_qdrant_client(): (client, error) for each state of the environment *)
get_qdrant_client(env) ==
    CASE env = "ok" -> <<"client", NoneVal>>
      [] env = "not_installed" -> <<NoneVal, "qdrant-client not installed">>
      [] env = "connection_failed" -> <<NoneVal, "Connection failed: refused">>

ClientStates == {"ok", "not_installed", "connection_failed"}

estimate_tokens_RoundedUp(text) == (TextLen(text) + 3) \div 4

estimate_tokens(text) == TextLen(text) \div 4

validate_token_budget(content) ==
    LET token_count == estimate_tokens(content)
        messages == IF token_count > MAX_TOKENS_PER_SHARD
                    THEN <<"Content exceeds max tokens per shard: " \o ToString(token_count)
                           \o " > " \o ToString(MAX_TOKENS_PER_SHARD)
                           \o ". Split into multiple shards.">>
                    ELSE <<>>
    IN <<Len(messages) = 0, messages>>

requires_file_refs_None == <<>>

requires_file_refs == <<"story_outcome", "error_pattern", "integration_example",
                        "config_pattern", "architecture_decision">>

(* FILE_LINE_PATTERN.findall(content) *)
FileLineMatches(content) == SelectSeq(content, LAMBDA seg : seg.ref = "listed")

validate_file_references(content, memory_type) ==
    IF ~InList(memory_type, requires_file_refs) THEN <<TRUE, <<>>>>
    ELSE LET matches == FileLineMatches(content)
             messages == IF Len(matches) = 0
                         THEN <<"Missing file:line references. Type '" \o Fmt(memory_type)
                                \o "' REQUIRES format: src/path/file.py:89-234. "
                                \o "Add at least one reference to make memory actionable.">>
                         ELSE <<>>
         IN <<Len(messages) = 0, messages>>

(* validate_code_snippets(content): one warning for each code block of more
   than 10 lines *)
validate_code_snippets(content) ==
    LET blocks == SelectSeq(content, LAMBDA seg : seg.code > 10)
    IN <<TRUE, [i \in 1..Len(blocks) |->
                   "Code snippet has " \o ToString(blocks[i].code)
                   \o " lines. Optimal: 3-10 lines for quick comprehension. "
                   \o "Consider reducing or linking to full file."]>>

(* check_duplicate_unique_id(client, unique_id): (is_dup, msg); the scan of
   COLLECTIONS_TO_CHECK from position i on *)
RECURSIVE ScanUniqueId(_, _, _, _)
ScanUniqueId(st, lookup, unique_id, i) ==
    IF i > Len(COLLECTIONS_TO_CHECK) THEN <<FALSE, "'" \o unique_id \o "' is available">>
    ELSE LET coll_name == COLLECTIONS_TO_CHECK[i]
             page == IF lookup[coll_name] = "ok" THEN Scroll(st, coll_name, ScrollLimit) ELSE <<>>
             hits == SelectSeq(page, LAMBDA point :
                         Get(point.payload, "unique_id", "") = unique_id)
         IN IF Len(hits) > 0
            THEN <<TRUE, "DUPLICATE: '" \o unique_id \o "' already exists in '" \o coll_name
                         \o "' (point_id: " \o ToString(hits[1].id) \o ")">>
            ELSE ScanUniqueId(st, lookup, unique_id, i + 1)

check_duplicate_unique_id(st, lookup, unique_id) ==
    IF ~Truthy(unique_id) THEN <<FALSE, "No unique_id to check">>
    ELSE ScanUniqueId(st, lookup, Fmt(unique_id), 1)

(* check_similar_content(client, content): (len(similar) > 0, similar) *)
RECURSIVE ScanContentHash(_, _, _, _)
ScanContentHash(st, lookup, content_hash, i) ==
    IF i > Len(COLLECTIONS_TO_CHECK) THEN <<>>
    ELSE LET coll_name == COLLECTIONS_TO_CHECK[i]
             page == IF lookup[coll_name] = "ok" THEN Scroll(st, coll_name, ScrollLimit) ELSE <<>>
             hits == SelectSeq(page, LAMBDA point :
                         Get(point.payload, "content_hash", "") = content_hash)
         IN [j \in 1..Len(hits) |->
                [collection |-> coll_name,
                 unique_id |-> Get(hits[j].payload, "unique_id", ""),
                 match_type |-> "exact_hash", similarity |-> 1000]]
            \o ScanContentHash(st, lookup, content_hash, i + 1)

check_similar_content(st, lookup, content) ==
    LET similar == ScanContentHash(st, lookup, Sha256(content), 1)
    IN <<Len(similar) > 0, similar>>

(* validate_metadata_fields raises: len() of an int unique_id, re.match on
   a created_at that is not a str *)
validate_metadata_fields_raises(metadata) ==
    LET unique_id == Get(metadata, "unique_id", S(""))
        created_at == Get(metadata, "created_at", S(""))
    IN \/ Truthy(unique_id) /\ LenRaises(unique_id)
       \/ Truthy(created_at) /\ ~IsStr(created_at)

validate_metadata_fields(metadata) ==
    LET missing == MissingFields(metadata)
        entry_type == Get(metadata, "type", S(""))
        importance == Get(metadata, "importance", S(""))
        unique_id == Get(metadata, "unique_id", S(""))
        created_at == Get(metadata, "created_at", S(""))
        agent == Get(metadata, "agent", S(""))
        group_id == Get(metadata, "group_id", S(""))
        errors ==
            (IF Len(missing) > 0
             THEN <<"Missing required fields: " \o ListRepr(missing)>> ELSE <<>>)
         \o (IF Truthy(entry_type) /\ ~InList(entry_type, VALID_TYPES)
             THEN <<"Invalid type '" \o Fmt(entry_type) \o "'. Must be one of: "
                    \o ListRepr(VALID_TYPES)>> ELSE <<>>)
         \o (IF Truthy(importance) /\ ~InList(importance, VALID_IMPORTANCE)
             THEN <<"Invalid importance '" \o Fmt(importance) \o "'. Must be: "
                    \o ListRepr(VALID_IMPORTANCE)>> ELSE <<>>)
         \o (IF Truthy(unique_id) /\ PyLen(unique_id) < 5
             THEN <<"unique_id '" \o Fmt(unique_id) \o "' too short (min 5 characters)">>
             ELSE <<>>)
         \o (IF Truthy(created_at) /\ ~MatchesIsoDatePrefix(Fmt(created_at))
             THEN <<"created_at '" \o Fmt(created_at)
                    \o "' must be ISO 8601 format (YYYY-MM-DD)">> ELSE <<>>)
         \o (IF ~Truthy(agent)
             THEN <<"Missing agent field - required for all memory types">> ELSE <<>>)
         \o (IF ~Truthy(group_id)
             THEN <<"Missing group_id field - required for multitenancy">> ELSE <<>>)
    IN <<Len(errors) = 0, errors>>

placeholders == <<"TODO", "FIXME", "TBD", "[INSERT", "[PLACEHOLDER">>

(* p in content.upper() *)
HasPlaceholder(content, p) == \E i \in 1..Len(content) : p \in content[i].marks

validate_content_quality(content) ==
    LET n == TextLen(content)
        found == SelectSeq(placeholders, LAMBDA p : HasPlaceholder(content, p))
        messages ==
            (IF n < MIN_CONTENT_LENGTH
             THEN <<"Content too short (" \o ToString(n) \o " chars). Minimum "
                    \o ToString(MIN_CONTENT_LENGTH) \o " chars for meaningful knowledge.">>
             ELSE <<>>)
         \o (IF n > MAX_CONTENT_LENGTH
             THEN <<"Content too long (" \o ToString(n) \o " chars). Maximum "
                    \o ToString(MAX_CONTENT_LENGTH) \o " chars. Consider splitting.">>
             ELSE <<>>)
         \o [i \in 1..Len(found) |-> "Content contains placeholder text: '" \o found[i] \o "'"]
    IN <<Len(messages) = 0, messages>>

Bullets(list) == Join("\n", [i \in 1..Len(list) |-> "  - " \o list[i]])

Passed_WithoutWarnings(details) == Len(details.errors) = 0 /\ Len(details.warnings) = 0

(* the verdict of validate_before_storage: not details["errors"] *)
Passed(details) == Len(details.errors) = 0

(* validate_before_storage(information, metadata, skip_duplicate_check,
   skip_similarity_check) on the store st, with the client in state env and the
   collections answering as lookup says: (is_valid, message, details) *)
validate_before_storage(st, env, lookup, information, metadata, skip_duplicate_check, skip_similarity_check) ==
    LET e1 == ExtendIfInvalid(<<>>, validate_metadata_fields(metadata))
        e2 == ExtendIfInvalid(e1, validate_file_references(information,
                                      Get(metadata, "type", S(""))))
        e3 == ExtendIfInvalid(e2, validate_token_budget(information))
        w1 == validate_code_snippets(information)[2]
        w2 == ExtendIfInvalid(w1, validate_content_quality(information))
        checks1 == <<"metadata_fields", "file_references", "token_budget", "code_snippets",
                     "content_quality">>
        got == get_qdrant_client(env)
        client == got[1]
        dup == check_duplicate_unique_id(st, lookup, Get(metadata, "unique_id", S("")))
        sim == check_similar_content(st, lookup, information)
        simOver == SelectSeq(sim[2], LAMBDA entry : entry.similarity >= SIMILARITY_THRESHOLD)
        simErrors == [i \in 1..Len(simOver) |->
                         "DUPLICATE: Similar content found (similarity: "
                         \o Fixed2(simOver[i].similarity) \o "): " \o simOver[i].unique_id
                         \o " in " \o simOver[i].collection]
        useClient == ~skip_duplicate_check /\ client # NoneVal
        errors == e3
                  \o (IF useClient /\ dup[1] THEN <<dup[2]>> ELSE <<>>)
                  \o (IF useClient /\ ~skip_similarity_check /\ sim[1] THEN simErrors ELSE <<>>)
        warnings == w2
                    \o (IF ~skip_duplicate_check /\ client = NoneVal
                        THEN <<"Qdrant unavailable (" \o got[2] \o ") - skipping duplicate check">>
                        ELSE <<>>)
        checks == checks1
                  \o (IF useClient THEN <<"duplicate_unique_id">> ELSE <<>>)
                  \o (IF useClient /\ ~skip_similarity_check THEN <<"similar_content">> ELSE <<>>)
        details == [errors |-> errors, warnings |-> warnings,
                    content_hash |-> Sha256(information),
                    token_count |-> estimate_tokens(information),
                    checks_performed |-> checks]
    IN IF ~Passed(details)
       THEN <<FALSE,
              "VALIDATION FAILED:\n" \o Bullets(errors)
              \o (IF Len(warnings) > 0 THEN "\n\nWarnings:\n" \o Bullets(warnings) ELSE ""),
              details>>
       ELSE IF Len(warnings) > 0
       THEN <<TRUE, "VALIDATION PASSED with warnings:\n" \o Bullets(warnings), details>>
       ELSE <<TRUE, "VALIDATION PASSED", details>>

(***************************************************************************)
(* check_duplicates.py                                                     *)
(***************************************************************************)
(* get_embedding_model(): (model, error) for each state of the environment *)
get_embedding_model(env) ==
    CASE env = "ok" -> <<"model", NoneVal>>
      [] env = "not_installed" -> <<NoneVal, "sentence-transformers not installed">>
      [] env = "load_failed" -> <<NoneVal, "Model loading failed: offline">>

ModelStates == {"ok", "not_installed", "load_failed"}

generate_content_hash(content) == Sha256(content)

(* check_hash_duplicate(client, content_hash): the matches of
   COLLECTIONS_TO_CHECK from position i on *)
RECURSIVE ScanHashDuplicate(_, _, _, _)
ScanHashDuplicate(st, lookup, content_hash, i) ==
    IF i > Len(COLLECTIONS_TO_CHECK) THEN <<>>
    ELSE LET coll_name == COLLECTIONS_TO_CHECK[i]
             page == IF lookup[coll_name] = "ok" THEN Scroll(st, coll_name, ScrollLimit) ELSE <<>>
             hits == SelectSeq(page, LAMBDA point :
                         Get(point.payload, "content_hash", "") = content_hash)
         IN [j \in 1..Len(hits) |->
                [collection |-> coll_name,
                 unique_id |-> Get(hits[j].payload, "unique_id", ""),
                 type |-> Get(hits[j].payload, "type", ""),
                 match_type |-> "exact_hash", similarity |-> 1000,
                 point_id |-> hits[j].id]]
            \o ScanHashDuplicate(st, lookup, content_hash, i + 1)

check_hash_duplicate(st, lookup, content_hash) ==
    LET duplicates == ScanHashDuplicate(st, lookup, content_hash, 1)
    IN <<Len(duplicates) > 0, duplicates>>

(* the score of a stored point for the query content, in thousandths: the
   cosine similarity of the two embeddings; other is the score the embedding
   model gives two different contents *)
Score(point, content, other) ==
    IF TextBytes(Get(point.payload, "content", <<>>)) = TextBytes(content) THEN 1000 ELSE other

QueryLimit == 5

(* client.query_points(collection_name, query, limit).points: the limit
   points of the highest scores, highest first *)
RECURSIVE SortByScore(_, _, _)
SortByScore(points, content, other) ==
    IF points = {} THEN <<>>
    ELSE LET p == CHOOSE x \in points :
                      \A y \in points :
                          \/ Score(x, content, other) > Score(y, content, other)
                          \/ Score(x, content, other) = Score(y, content, other) /\ x.id <= y.id
         IN <<[id |-> p.id, payload |-> p.payload, score |-> Score(p, content, other)]>>
            \o SortByScore(points \ {p}, content, other)

QueryPoints(st, coll_name, content, other, limit) ==
    LET all == SortByScore(st[coll_name], content, other)
    IN SubSeq(all, 1, Min(limit, Len(all)))

IsSimilar_Strictly(score) == score > SIMILARITY_THRESHOLD

(* result.score >= SIMILARITY_THRESHOLD *)
IsSimilar(score) == score >= SIMILARITY_THRESHOLD

RECURSIVE ScanSemantic(_, _, _, _, _)
ScanSemantic(st, lookup, content, other, i) ==
    IF i > Len(COLLECTIONS_TO_CHECK) THEN <<>>
    ELSE LET coll_name == COLLECTIONS_TO_CHECK[i]
             results == IF lookup[coll_name] = "ok"
                        THEN QueryPoints(st, coll_name, content, other, QueryLimit) ELSE <<>>
             hits == SelectSeq(results, LAMBDA result : IsSimilar(result.score))
         IN [j \in 1..Len(hits) |->
                [collection |-> coll_name,
                 unique_id |-> Get(hits[j].payload, "unique_id", ""),
                 type |-> Get(hits[j].payload, "type", ""),
                 match_type |-> "semantic", similarity |-> hits[j].score,
                 point_id |-> hits[j].id]]
            \o ScanSemantic(st, lookup, content, other, i + 1)

(* check_semantic_duplicate(client, model, content); encodeOk: model.encode
   does not raise *)
check_semantic_duplicate(st, lookup, encodeOk, content, other) ==
    IF ~encodeOk THEN <<FALSE, <<>>>>
    ELSE LET similar == ScanSemantic(st, lookup, content, other, 1)
         IN <<Len(similar) > 0, similar>>

RECURSIVE ScanCollision(_, _, _, _)
ScanCollision(st, lookup, unique_id, i) ==
    IF i > Len(COLLECTIONS_TO_CHECK) THEN <<FALSE, PyNone>>
    ELSE LET coll_name == COLLECTIONS_TO_CHECK[i]
             page == IF lookup[coll_name] = "ok" THEN Scroll(st, coll_name, ScrollLimit) ELSE <<>>
             hits == SelectSeq(page, LAMBDA point :
                         Get(point.payload, "unique_id", "") = unique_id)
         IN IF Len(hits) > 0
            THEN <<TRUE, [t |-> "dict", collection |-> coll_name, unique_id |-> unique_id,
                          type |-> Get(hits[1].payload, "type", ""),
                          point_id |-> hits[1].id]>>
            ELSE ScanCollision(st, lookup, unique_id, i + 1)

check_unique_id_collision(st, lookup, unique_id) ==
    IF ~Truthy(unique_id) THEN <<FALSE, PyNone>>
    ELSE ScanCollision(st, lookup, Fmt(unique_id), 1)

(* what the scans of one call write to stderr / stdout: a line for every
   collection whose lookup raised something other than "not found" *)
CouldNotCheck(lookup) ==
    LET failed == SelectSeq(COLLECTIONS_TO_CHECK, LAMBDA c : lookup[c] = "error")
    IN [i \in 1..Len(failed) |-> "Warning: Could not check " \o failed[i] \o ": timed out"]

DuplicatesFound_CountingSimilar(details) ==
    \/ Len(details.duplicates) > 0
    \/ details.unique_id_collision # PyNone
    \/ Len(details.similar) > 0

(* len(details["duplicates"]) > 0 or details["unique_id_collision"] is not None *)
DuplicatesFound(details) ==
    Len(details.duplicates) > 0 \/ details.unique_id_collision # PyNone

(* the last line but one of format_results: the RESULT line *)
ResultLine(duplicates_found, details) ==
    IF duplicates_found THEN "RESULT: DUPLICATES FOUND - DO NOT STORE"
    ELSE IF Len(details.similar) > 0 THEN "RESULT: SIMILAR CONTENT - REVIEW BEFORE STORING"
    ELSE "RESULT: NO DUPLICATES - SAFE TO STORE"

SemanticAttempted_IgnoringHash(skip_semantic, is_dup) == ~skip_semantic

(* the guard of the semantic check: not skip_semantic and not is_dup *)
SemanticAttempted(skip_semantic, is_dup) == ~skip_semantic /\ ~is_dup

(* the number of calls of model.encode a run of check_for_duplicates makes:
   one, in check_semantic_duplicate, when the client and the model are
   obtained and the guard of the semantic check holds *)
EncodeCalls(st, env, modelEnv, lookup, content, skip_semantic) ==
    LET is_dup == check_hash_duplicate(st, lookup, generate_content_hash(content))[1]
    IN IF /\ get_qdrant_client(env)[1] # NoneVal
          /\ SemanticAttempted(skip_semantic, is_dup)
          /\ get_embedding_model(modelEnv)[1] # NoneVal
       THEN 1 ELSE 0

(* check_for_duplicates(content, unique_id, skip_semantic): (duplicates_found, details) *)
check_for_duplicates(st, env, modelEnv, encodeOk, lookup, other, content, unique_id, skip_semantic) ==
    LET content_hash == generate_content_hash(content)
        got == get_qdrant_client(env)
        client == got[1]
        hash == check_hash_duplicate(st, lookup, content_hash)
        is_dup == hash[1]
        duplicates == IF is_dup THEN hash[2] ELSE <<>>
        trySemantic == SemanticAttempted(skip_semantic, is_dup)
        gotModel == get_embedding_model(modelEnv)
        model == gotModel[1]
        sem == check_semantic_duplicate(st, lookup, encodeOk, content, other)
        similar == IF trySemantic /\ model # NoneVal /\ sem[1] THEN sem[2] ELSE <<>>
        coll == check_unique_id_collision(st, lookup, unique_id)
        unique_id_collision == IF Truthy(unique_id) /\ coll[1] THEN coll[2] ELSE PyNone
        checks == <<"content_hash">>
                  \o (IF trySemantic /\ model # NoneVal THEN <<"semantic_similarity">> ELSE <<>>)
                  \o (IF Truthy(unique_id) THEN <<"unique_id_collision">> ELSE <<>>)
        details == [content_hash |-> content_hash, duplicates |-> duplicates,
                    similar |-> similar, unique_id_collision |-> unique_id_collision,
                    checks_performed |-> checks]
        duplicates_found == DuplicatesFound(details)
    IN IF client = NoneVal
       THEN <<FALSE, [content_hash |-> content_hash, duplicates |-> <<>>, similar |-> <<>>,
                      unique_id_collision |-> PyNone, checks_performed |-> <<>>,
                      error |-> "Qdrant unavailable: " \o got[2]]>>
       ELSE IF trySemantic /\ model = NoneVal
       THEN <<duplicates_found,
              details @@ [warnings |-> <<"Semantic check skipped: " \o gotModel[2]>>]>>
       ELSE <<duplicates_found, details>>

(***************************************************************************)
(* Inputs of the model.                                                    *)
(***************************************************************************)
Prose(tag, n) == [s |-> "<" \o tag \o ">", len |-> n, ref |-> "none", marks |-> {}, code |-> 0]

(* a path:line-range reference the pattern of validate_storage.py:87 matches,
   and one whose extension is not in its list *)
RefListed == [s |-> "auth/jwt.py:89-145", len |-> 18, ref |-> "listed", marks |-> {}, code |-> 0]
RefUnlisted == [s |-> "src/main.c:10", len |-> 13, ref |-> "unlisted", marks |-> {}, code |-> 0]

ContentA == <<Prose("jwt", 220), RefListed>>
ContentB == <<Prose("notes", 400)>>

OtherGroupId == "other-project"

StoryIds == {"2-17"}

(* the shards callers build and hand to store_memory / store_batch *)
ShardInputs ==
    { [content |-> ContentA, unique_id |-> "story-2-17-outcome-20260104",
       group_id |-> ConfigGroupId, type |-> "story_outcome"],
      [content |-> ContentA, unique_id |-> "chat-0001",
       group_id |-> ConfigGroupId, type |-> "chat_memory"],
      [content |-> ContentB, unique_id |-> "chat-0001",
       group_id |-> OtherGroupId, type |-> "best_practice"] }

CallerCreatedAt == "2026-01-04T10:00:00"

StoreCollectionTypes == {"agent_memory", "best_practices"}

WhatBuilt == {<<Prose("built", 150), RefListed>>, <<Prose("tiny", 10)>>}
CommonErrors == {<<>>, <<Prose("errors", 40)>>}
Integration == <<Prose("integration", 40)>>
Testing == <<Prose("testing", 40)>>

HookCollectionTypes == {"knowledge"}

(* metadata of a candidate *)
BaseMetadata ==
    [unique_id |-> S("story-2-17-outcome-20260104"), type |-> S("story_outcome"),
     component |-> S("auth"), importance |-> S("high"),
     created_at |-> S("2026-01-04T10:00:00"), agent |-> S("dev"),
     group_id |-> S(ConfigGroupId)]

Absent == [t |-> "absent"]

(* the mapping md with md[f] = v, or without the key f *)
With(md, f, v) ==
    IF v = Absent THEN [k \in DOMAIN md \ {f} |-> md[k]]
    ELSE [k \in DOMAIN md \cup {f} |-> IF k = f THEN v ELSE md[k]]

Without(md, fields) == [k \in DOMAIN md \ fields |-> md[k]]

FieldNames == {REQUIRED_FIELDS[i] : i \in 1..Len(REQUIRED_FIELDS)}

FieldValues(f) ==
    CASE f = "unique_id" -> {Absent, S(""), S("ab12"), S("story-2-17-outcome-20260104"),
                             S("chat-0001"), S("bugfix-12345")}
      [] f = "type" -> {Absent, S(""), S("requirement")} \cup {S(VALID_TYPES[i]) : i \in 1..Len(VALID_TYPES)}
      [] f = "component" -> {Absent, S(""), S("a"), S("auth")}
      [] f = "importance" -> {Absent, S(""), S("urgent"), S("high")}
      [] f = "created_at" -> {Absent, S(""), S("yesterday"), S("2026-13-45"), S("2026-01-04T10:00:00")}
      [] f = "agent" -> {Absent, S(""), S("hacker"), S("dev")}
      [] f = "group_id" -> {Absent, S(""), S("ab"), S(ConfigGroupId)}

(* the base metadata changed in one field, and in two *)
MetadataOne == {With(BaseMetadata, f, v) : f \in FieldNames, v \in UNION {FieldValues(g) : g \in FieldNames}}
               \cap UNION {{With(BaseMetadata, f, v) : v \in FieldValues(f)} : f \in FieldNames}

MetadataTwo ==
    UNION {{With(With(BaseMetadata, f1, v1), f2, v2) : v1 \in FieldValues(f1), v2 \in FieldValues(f2)} :
           f1 \in FieldNames, f2 \in FieldNames}

MetadataUnsafe ==
    {With(BaseMetadata, "notes", BigStr(MAX_JSON_SIZE)),
     With(BaseMetadata, "notes", L(<<S("a"), S("b")>>)),
     With(BaseMetadata, "notes", Nest(MAX_JSON_DEPTH)),
     With(BaseMetadata, "notes", Nest(MAX_JSON_DEPTH + 1))}

MetadataWide ==
    MetadataTwo \cup {Without(BaseMetadata, M) : M \in SUBSET FieldNames} \cup MetadataUnsafe

(* the candidates of the narrow runs: a valid mapping for each unique_id *)
MetadataNarrow ==
    {With(BaseMetadata, "unique_id", S(u)) :
        u \in {"story-2-17-outcome-20260104", "chat-0001", "story-9-99-outcome-20260104"}}

ContentShort == <<Prose("short", 40)>>
ContentUnlisted == <<Prose("c-notes", 220), RefUnlisted>>
ContentAtBudget == <<Prose("long", 4 * MAX_TOKENS_PER_SHARD - 15), RefListed>>
ContentOverBudget == <<Prose("long", 4 * MAX_TOKENS_PER_SHARD - 14), RefListed>>
ContentTodo == <<[s |-> "<draft>", len |-> 150, ref |-> "none", marks |-> {"TODO", "TBD"}, code |-> 12]>>
ContentHuge == <<Prose("huge", MAX_CONTENT_LENGTH + 1)>>

ContentsWide == {ContentA, ContentB, ContentShort, ContentUnlisted, ContentAtBudget,
                 ContentOverBudget, ContentTodo, ContentHuge}
ContentsNarrow == {ContentA}

AllOk == [c \in Collections |-> "ok"]

(* every lookup answers, or those of the knowledge collection raise *)
Lookups == {AllOk} \cup {[AllOk EXCEPT ![KNOWLEDGE_COLLECTION] = x] : x \in LookupStatus \ {"ok"}}

(***************************************************************************)
(* memory_store.py                                                         *)
(***************************************************************************)
(* store_memory(shard, collection_type): the store after the upsert *)
store_memory(st, shard, collection_type) ==
    Upsert(st, collection_map(collection_type), PointsOf(<<shard>>))

(* store_batch(shards, collection_type): the store after the upsert *)
store_batch(st, shards, collection_type) ==
    IF Len(shards) = 0 THEN st
    ELSE Upsert(st, collection_map(collection_type), PointsOf(shards))

(* The caller is one thread: an operation returns to it (last holds the    *)
(* call and what it returned), it reads the result, and goes on.           *)
ResultRead == last.op = "none"

ReadResult ==
    /\ last.op # "none"
    /\ last' = [op |-> "none"]
    /\ UNCHANGED <<store, now>>

(* a caller builds a MemoryShard and stores it with store_memory *)
StoreMemory ==
    /\ ResultRead
    /\ \E inp \in ShardInputs, collection_type \in StoreCollectionTypes, id \in PointIds \ UsedIds :
        LET created_at == CallerCreatedAt
            shard == MemoryShard(id, inp.content, inp.unique_id, inp.group_id, inp.type,
                                 "dev", "auth", "high", created_at, NoneVal, NoneVal, <<>>)
        IN /\ PostInitOk(inp.content, inp.type, created_at)
           /\ store' = store_memory(store, shard, collection_type)
           /\ last' = [op |-> "store_memory", raised |-> FALSE]
           /\ UNCHANGED now

(* a caller builds two MemoryShards and stores them with store_batch *)
StoreBatch ==
    /\ ResultRead
    /\ \E inp1 \in ShardInputs, inp2 \in ShardInputs, collection_type \in StoreCollectionTypes,
       id1 \in PointIds \ UsedIds, id2 \in PointIds \ UsedIds :
        LET created_at == CallerCreatedAt
            s1 == MemoryShard(id1, inp1.content, inp1.unique_id, inp1.group_id, inp1.type,
                              "dev", "auth", "high", created_at, NoneVal, NoneVal, <<>>)
            s2 == MemoryShard(id2, inp2.content, inp2.unique_id, inp2.group_id, inp2.type,
                              "dev", "auth", "high", created_at, NoneVal, NoneVal, <<>>)
        IN /\ id1 # id2
           /\ PostInitOk(inp1.content, inp1.type, created_at)
           /\ PostInitOk(inp2.content, inp2.type, created_at)
           /\ store' = store_batch(store, <<s1, s2>>, collection_type)
           /\ last' = [op |-> "store_batch", raised |-> FALSE]
           /\ UNCHANGED now

(***************************************************************************)
(* agent_hooks.py: the post-work hooks.                                    *)
(***************************************************************************)
(* AgentMemoryHooks.__init__: self.group_id *)
HooksGroupId(group_id) == IF group_id = NoneVal THEN ConfigGroupId ELSE group_id

StoryContent(story_id, what_built, integration_points, testing) ==
    Lit("Story ") \o Lit(story_id) \o Lit(": ") \o what_built \o Lit(". Integration: ")
    \o integration_points \o Lit(". Testing: ") \o testing

ErrorContent(story_id, component, common_errors, what_built) ==
    Lit("Story ") \o Lit(story_id) \o Lit(" common errors in ") \o Lit(component) \o Lit(": ")
    \o common_errors \o Lit(". Context: Occurred during implementation of ")
    \o Slice(what_built, 100)
    \o Lit(". Prevention: Review these patterns when working on similar features.")

AfterStoryComplete ==
    /\ ResultRead
    /\ \E agent \in {"dev"}, group_id \in {NoneVal}, collection_type \in HookCollectionTypes,
       story_id \in StoryIds, what_built \in WhatBuilt, common_errors \in CommonErrors,
       id1 \in PointIds, id2 \in PointIds :
        LET content1 == StoryContent(story_id, what_built, Integration, Testing)
            content2 == ErrorContent(story_id, "auth", common_errors, what_built)
            created_at == IsoFormat(now)
            shard1 == MemoryShard(id1, content1,
                          "story-" \o story_id \o "-outcome-" \o StrfYmd(now),
                          HooksGroupId(group_id), "story_outcome", agent, "auth", "high",
                          created_at, story_id, "2", <<>>)
            shard2 == MemoryShard(id2, content2,
                          "error-" \o story_id \o "-" \o StrfYmd(now),
                          HooksGroupId(group_id), "error_pattern", agent, "auth", "medium",
                          created_at, story_id, "2", <<>>)
            withErrors == Len(common_errors) > 0
            raises == \/ ~PostInitOk(content1, "story_outcome", created_at)
                      \/ withErrors /\ ~PostInitOk(content2, "error_pattern", created_at)
            shards == IF withErrors THEN <<shard1, shard2>> ELSE <<shard1>>
        IN /\ id1 # id2
           /\ raises \/ ({id1} \cup (IF withErrors THEN {id2} ELSE {})) \cap UsedIds = {}
           /\ \/ ~raises \/ (id1 = 1 /\ id2 = 2)
           /\ withErrors \/ id2 = CHOOSE i \in PointIds : i # id1
           /\ store' = IF raises THEN store ELSE store_batch(store, shards, collection_type)
           /\ last' = [op |-> "after_story_complete", raised |-> raises]
           /\ UNCHANGED now

AfterArchitectureDecision ==
    /\ ResultRead
    /\ \E agent \in {"architect"}, group_id \in {NoneVal}, collection_type \in HookCollectionTypes,
       topic \in {"auth"}, breaking_change \in BOOLEAN, id \in PointIds \ UsedIds :
        LET content == Lit("Architecture decision: ") \o <<Prose("decision", 120), RefListed>>
                       \o Lit(". Justification: ") \o <<Prose("justification", 60)>>
                       \o Lit(". Trade-offs: ") \o <<Prose("tradeoffs", 30)>>
            created_at == IsoFormat(now)
            shard == MemoryShard(id, content, "arch-" \o topic \o "-" \o StrfYmd(now),
                         HooksGroupId(group_id), "architecture_decision", agent, "auth",
                         IF breaking_change THEN "critical" ELSE "high",
                         created_at, NoneVal, NoneVal,
                         IF breaking_change THEN <<"breaking_change">> ELSE <<>>)
        IN /\ PostInitOk(content, "architecture_decision", created_at)
           /\ store' = store_memory(store, shard, collection_type)
           /\ last' = [op |-> "after_architecture_decision", raised |-> FALSE]
           /\ UNCHANGED now

AfterBugFix ==
    /\ ResultRead
    /\ \E agent \in {"dev"}, group_id \in {NoneVal}, collection_type \in HookCollectionTypes,
       component \in {"auth"}, id \in PointIds \ UsedIds :
        LET content == Lit("Error: ") \o <<Prose("error", 60)>> \o Lit(". Cause: ")
                       \o <<Prose("cause", 60)>> \o Lit(". Solution: ")
                       \o <<Prose("solution", 60), RefListed>> \o Lit(". Prevention: ")
                       \o <<Prose("prevention", 30)>>
            created_at == IsoFormat(now)
            shard == MemoryShard(id, content, "error-" \o component \o "-" \o StrfYmdHM(now),
                         HooksGroupId(group_id), "error_pattern", agent, component, "medium",
                         created_at, NoneVal, NoneVal, <<>>)
        IN /\ PostInitOk(content, "error_pattern", created_at)
           /\ store' = store_memory(store, shard, collection_type)
           /\ last' = [op |-> "after_bug_fix", raised |-> FALSE]
           /\ UNCHANGED now

(* the clock moves on *)
TickMinute ==
    /\ now.minute < MaxMinute
    /\ now' = [now EXCEPT !.minute = now.minute + 1]
    /\ UNCHANGED <<store, last>>

TickDay ==
    /\ now.day < MaxDay
    /\ now' = [day |-> now.day + 1, minute |-> 0]
    /\ UNCHANGED <<store, last>>

(***************************************************************************)
(* The validators, called on the store as it is.  They change nothing of   *)
(* the program: last holds the call and what it returned.                  *)
(***************************************************************************)
CallValidateBeforeStorage(contents, metadatas, skips) ==
    /\ ResultRead
    /\ \E information \in contents, metadata \in metadatas,
       skip_duplicate_check \in skips, skip_similarity_check \in skips,
       env \in ClientStates, lookup \in Lookups :
        LET r == validate_before_storage(store, env, lookup, information, metadata,
                                         skip_duplicate_check, skip_similarity_check)
        IN /\ (skip_duplicate_check \/ env # "ok") => lookup = AllOk
           /\ skip_duplicate_check => env = "ok"
           /\ last' = IF validate_metadata_fields_raises(metadata)
                       THEN [op |-> "validate_before_storage", information |-> information,
                             metadata |-> metadata,
                             skip_duplicate_check |-> skip_duplicate_check,
                             skip_similarity_check |-> skip_similarity_check,
                             env |-> env, lookup |-> lookup, raised |-> TRUE]
                       ELSE [op |-> "validate_before_storage", information |-> information,
                             metadata |-> metadata,
                             skip_duplicate_check |-> skip_duplicate_check,
                             skip_similarity_check |-> skip_similarity_check,
                             env |-> env, lookup |-> lookup, raised |-> FALSE,
                             stdout |-> IF ~skip_duplicate_check /\ env = "ok"
                                           /\ Truthy(Get(metadata, "unique_id", S("")))
                                        THEN CouldNotCheck(lookup) ELSE <<>>,
                             is_valid |-> r[1], message |-> r[2], details |-> r[3]]
           /\ UNCHANGED <<store, now>>

CallValidateMetadataComplete(metadatas) ==
    /\ ResultRead
    /\ \E metadata \in metadatas :
        LET r == validate_metadata_complete(metadata)
        IN /\ last' = IF validate_metadata_complete_raises(metadata)
                       THEN [op |-> "validate_metadata_complete", metadata |-> metadata,
                             raised |-> TRUE]
                       ELSE [op |-> "validate_metadata_complete", metadata |-> metadata,
                             raised |-> FALSE, is_valid |-> r[1], details |-> r[2]]
           /\ UNCHANGED <<store, now>>

SimilarityOfOthers == {SIMILARITY_THRESHOLD - 1, SIMILARITY_THRESHOLD}

CallCheckForDuplicates(contents, unique_ids, modelEnvs, encodes, others) ==
    /\ ResultRead
    /\ \E content \in contents, unique_id \in unique_ids, skip_semantic \in BOOLEAN,
       env \in ClientStates, modelEnv \in modelEnvs, encodeOk \in encodes,
       lookup \in Lookups, other \in others :
        LET r == check_for_duplicates(store, env, modelEnv, encodeOk, lookup, other,
                                      content, unique_id, skip_semantic)
        IN /\ env # "ok" => lookup = AllOk /\ modelEnv = "ok"
           /\ (env # "ok" \/ skip_semantic \/ modelEnv # "ok") =>
                  encodeOk /\ other = SIMILARITY_THRESHOLD
           /\ ~encodeOk => other = SIMILARITY_THRESHOLD
           /\ last' = [op |-> "check_for_duplicates", content |-> content,
                       unique_id |-> unique_id, skip_semantic |-> skip_semantic,
                       env |-> env, modelEnv |-> modelEnv, encodeOk |-> encodeOk,
                       lookup |-> lookup, other |-> other,
                       stderr |-> IF env = "ok" THEN CouldNotCheck(lookup) ELSE <<>>,
                       encode_calls |-> EncodeCalls(store, env, modelEnv, lookup, content,
                                                    skip_semantic),
                       duplicates_found |-> r[1], details |-> r[2]]
           /\ UNCHANGED <<store, now>>

(* the calls of the whole program: default flags, the model loads *)
ValidateBeforeStorage == CallValidateBeforeStorage(ContentsNarrow, MetadataNarrow, {FALSE})

UniqueIdsNarrow == {PyNone, S("story-2-17-outcome-20260104"), S("chat-0001")}

CheckForDuplicates ==
    CallCheckForDuplicates(ContentsNarrow, UniqueIdsNarrow, {"ok"}, {TRUE}, {SIMILARITY_THRESHOLD})

ValidateMetadataComplete == CallValidateMetadataComplete(MetadataNarrow)

(* the calls of the validators alone: every flag, every candidate *)
ValidateBeforeStorageWide == CallValidateBeforeStorage(ContentsWide, MetadataOne, BOOLEAN)

ValidateMetadataCompleteWide == CallValidateMetadataComplete(MetadataWide)

CheckForDuplicatesWide ==
    CallCheckForDuplicates({ContentA, ContentB}, UniqueIdsNarrow, ModelStates, BOOLEAN,
                           SimilarityOfOthers)

Init ==
    /\ store = [c \in Collections |-> {}]
    /\ now = [day |-> 0, minute |-> 0]
    /\ last = [op |-> "none"]

Next ==
    \/ StoreMemory
    \/ StoreBatch
    \/ AfterStoryComplete
    \/ AfterArchitectureDecision
    \/ AfterBugFix
    \/ TickMinute
    \/ TickDay
    \/ ValidateBeforeStorage
    \/ ValidateMetadataComplete
    \/ CheckForDuplicates
    \/ ReadResult

Spec == Init /\ [][Next]_vars

(* the validators alone, on stores that store_memory has built *)
StoresValidate ==
    {[c \in Collections |-> {}],
     store_memory([c \in Collections |-> {}],
                  MemoryShard(1, ContentA, "story-2-17-outcome-20260104", ConfigGroupId,
                              "story_outcome", "dev", "auth", "high", CallerCreatedAt,
                              NoneVal, NoneVal, <<>>),
                  "bmad_knowledge")}

InitValidate ==
    /\ store \in StoresValidate
    /\ now = [day |-> 0, minute |-> 0]
    /\ last = [op |-> "none"]

NextValidate ==
    \/ ValidateBeforeStorageWide
    \/ ValidateMetadataCompleteWide
    \/ CheckForDuplicatesWide
    \/ ReadResult

SpecValidate == InitValidate /\ [][NextValidate]_vars

(***************************************************************************)
(* The validators on metadata whose fields hold the other JSON scalars and *)
(* arrays: a number, null, a list of strings.                              *)
(***************************************************************************)
ScalarValues == {Num(12345), Num(0), PyNone, L(<<S("story-2-17")>>)}

MetadataScalars == {With(BaseMetadata, f, v) : f \in FieldNames, v \in ScalarValues}

ValidateBeforeStorageScalars ==
    CallValidateBeforeStorage({ContentA, ContentB}, MetadataScalars, BOOLEAN)

ValidateMetadataCompleteScalars == CallValidateMetadataComplete(MetadataScalars)

NextScalars ==
    \/ ValidateBeforeStorageScalars
    \/ ValidateMetadataCompleteScalars
    \/ ReadResult

SpecScalars == InitValidate /\ [][NextScalars]_vars

(***************************************************************************)
(* check_for_duplicates on a store that other clients of the vector store  *)
(* write to as well: a record whose payload carries the content_hash field *)
(* that check_hash_duplicate reads.                                        *)
(***************************************************************************)
HashedPoint ==
    [id |-> 2,
     payload |-> to_payload(MemoryShard(2, ContentB, "legacy-0001", ConfigGroupId,
                                        "best_practice", "dev", "auth", "high",
                                        CallerCreatedAt, NoneVal, NoneVal, <<>>))
                 @@ [content_hash |-> generate_content_hash(ContentB)]]

(* a collection of more records than one page of client.scroll: a shard
   stored by store_memory, then the record with the content_hash *)
StoreOverOnePage ==
    [store_memory([c \in Collections |-> {}],
                  MemoryShard(1, ContentA, "bp-jwt-0001", ConfigGroupId,
                              "best_practice", "dev", "auth", "high", CallerCreatedAt,
                              NoneVal, NoneVal, <<>>),
                  "best_practices")
     EXCEPT ![BEST_PRACTICES_COLLECTION] = @ \cup {HashedPoint}]

StoresDuplicates ==
    StoresValidate
    \cup {[s EXCEPT ![BEST_PRACTICES_COLLECTION] = @ \cup {HashedPoint}] : s \in StoresValidate}
    \cup {StoreOverOnePage}

InitDuplicates ==
    /\ store \in StoresDuplicates
    /\ now = [day |-> 0, minute |-> 0]
    /\ last = [op |-> "none"]

ValidateBeforeStorageHashed ==
    CallValidateBeforeStorage({ContentA, ContentB}, MetadataNarrow, BOOLEAN)

NextDuplicates ==
    \/ CheckForDuplicatesWide
    \/ ValidateBeforeStorageHashed
    \/ ReadResult

SpecDuplicates == InitDuplicates /\ [][NextDuplicates]_vars

(***************************************************************************)
(* token_budget.py                                                         *)
(***************************************************************************)
AGENT_TOKEN_BUDGETS ==
    [agent \in {"architect", "analyst", "pm", "dev", "tea", "tech-writer", "ux-designer",
                "quick-flow-solo-dev", "sm"} |->
        CASE agent = "architect" -> 1500
          [] agent \in {"analyst", "pm"} -> 1200
          [] agent = "sm" -> 800
          [] OTHER -> 1000]

DEFAULT_TOKEN_BUDGET == 1000

MAX_MEMORIES_PER_AGENT == 3

get_token_limit(agent) == Get(AGENT_TOKEN_BUDGETS, agent, DEFAULT_TOKEN_BUDGET)

get_memory_limit_All(agent) == MaxResults + 1

get_memory_limit(agent) == MAX_MEMORIES_PER_AGENT

(* len(result.content) / 4 is a float: token counts are kept in quarters *)
ResultTokens4(result) == TextLen(result.content)

OverBudget_Never(total_tokens4, result, token_budget) == FALSE

(* total_tokens + result_tokens > token_budget *)
OverBudget(total_tokens4, result, token_budget) ==
    total_tokens4 + ResultTokens4(result) > 4 * token_budget

(* the loop over results[:max_memories], from its i-th element on *)
RECURSIVE SelectFrom(_, _, _, _, _, _)
SelectFrom(results, i, selected, total_tokens4, token_budget, include_score_threshold) ==
    IF i > Len(results) THEN <<selected, total_tokens4>>
    ELSE IF results[i].score < include_score_threshold
         THEN SelectFrom(results, i + 1, selected, total_tokens4, token_budget,
                         include_score_threshold)
    ELSE IF OverBudget(total_tokens4, results[i], token_budget)
         THEN <<selected, total_tokens4>>
    ELSE SelectFrom(results, i + 1, Append(selected, results[i]),
                    total_tokens4 + ResultTokens4(results[i]), token_budget,
                    include_score_threshold)

(* get_optimal_context(agent, results, include_score_threshold):           *)
(* (selected, int(total_tokens))                                           *)
get_optimal_context(agent, results, include_score_threshold) ==
    LET token_budget == get_token_limit(agent)
        max_memories == get_memory_limit(agent)
        r == SelectFrom(SubSeq(results, 1, Min(Len(results), max_memories)), 1, <<>>, 0,
                        token_budget, include_score_threshold)
    IN <<r[1], r[2] \div 4>>

(* search results: scores in thousandths, contents up to a session summary *)
ResultContents == {<<Prose("pattern", 1203)>>, <<Prose("outcome", 2000)>>,
                   <<Prose("summary", 4 * SessionSummaryMaxTokens)>>}

ResultScores == {500, 900}

SearchResults ==
    {[content |-> c, score |-> sc, metadata |-> [type |-> "story_outcome", agent |-> "dev"]] :
        c \in ResultContents, sc \in ResultScores}

ResultLists == UNION {[1..n -> SearchResults] : n \in 0..MaxResults}

BudgetAgents == {"architect", "pm", "sm", "auditor"}

ScoreThresholds == {0, 700}

GetOptimalContext ==
    /\ ResultRead
    /\ \E agent \in BudgetAgents, results \in ResultLists,
       include_score_threshold \in ScoreThresholds :
        LET r == get_optimal_context(agent, results, include_score_threshold)
        IN /\ last' = [op |-> "get_optimal_context", agent |-> agent, results |-> results,
                       include_score_threshold |-> include_score_threshold,
                       selected |-> r[1], total_tokens |-> r[2]]
           /\ UNCHANGED <<store, now>>

NextBudget ==
    \/ GetOptimalContext
    \/ ReadResult

SpecBudget == Init /\ [][NextBudget]_vars

(***************************************************************************)
(* Validate, then store: a submission runs validate_before_storage with    *)
(* the client available and every lookup answering, and calls store_memory *)
(* only on a pass.  A submission is one step: no other submission runs     *)
(* between its validation and its store.                                   *)
(***************************************************************************)
(* the point ids uuid4 draws from: enough for a collection of more records
   than one page of client.scroll, and one more *)
SubmitPointIds == 1..(ScrollLimit + 2)

SubmitCollectionTypes == {"bmad_knowledge", "best_practices"}

SubmitShard ==
    /\ ResultRead
    /\ \E metadata \in MetadataNarrow, collection_type \in SubmitCollectionTypes,
          id \in SubmitPointIds \ UsedIds :
           LET r == validate_before_storage(store, "ok", AllOk, ContentA, metadata, FALSE, FALSE)
               shard == MemoryShard(id, ContentA, Fmt(metadata.unique_id),
                                    Fmt(metadata.group_id), Fmt(metadata.type),
                                    Fmt(metadata.agent), Fmt(metadata.component),
                                    Fmt(metadata.importance), Fmt(metadata.created_at),
                                    NoneVal, NoneVal, <<>>)
           IN /\ store' = IF r[1] THEN store_memory(store, shard, collection_type) ELSE store
              /\ last' = [op |-> "submit", metadata |-> metadata, is_valid |-> r[1],
                          details |-> r[3], stored |-> r[1]]
    /\ UNCHANGED now

NextSubmit ==
    \/ SubmitShard
    \/ ReadResult

SpecSubmit == Init /\ [][NextSubmit]_vars

(***************************************************************************)
(* The pre-work hooks of agent_hooks.py: search_memories, then             *)
(* get_optimal_context, then format_for_context of memory_search.py.       *)
(***************************************************************************)
(* SearchResult.format_for_context(): the header line, the content, a
   newline; the text is kept as the header and the content *)
ResultText(result) ==
    [header |-> "[" \o result.metadata.type \o " | " \o result.metadata.agent
                \o " | score: " \o Fixed2(result.score) \o "]",
     content |-> result.content]

(* len(result_text) / 4 in quarters: header, "\n", content, "\n" *)
ResultTextTokens4(result) ==
    Len(ResultText(result).header) + 1 + TextLen(result.content) + 1

(* the loop of format_for_context from the i-th result on: the texts that
   "\n\n".join(formatted) joins *)
RECURSIVE FormatFrom(_, _, _, _, _)
FormatFrom(results, i, formatted, current_tokens4, max_tokens) ==
    IF i > Len(results) THEN formatted
    ELSE IF current_tokens4 + ResultTextTokens4(results[i]) > 4 * max_tokens THEN formatted
    ELSE FormatFrom(results, i + 1, Append(formatted, ResultText(results[i])),
                    current_tokens4 + ResultTextTokens4(results[i]), max_tokens)

(* format_for_context(results, max_tokens): the texts of the context string *)
format_for_context(results, max_tokens) == FormatFrom(results, 1, <<>>, 0, max_tokens)

(* what search_memories returns to a hook: at most limit results, best first *)
SearchLimit == 3
ErrorSearchLimit == 2

Found(memory_types, limit) ==
    LET found == {[content |-> c, score |-> sc, metadata |-> [type |-> t, agent |-> "dev"]] :
                     c \in ResultContents \ {<<Prose("outcome", 2000)>>},
                     sc \in ResultScores, t \in memory_types}
    IN {results \in UNION {[1..n -> found] : n \in 0..limit} :
           \A i \in 1..(Len(results) - 1) : results[i].score >= results[i + 1].score}

(* the return of a pre-work hook, with what it selected on the way *)
HookReturn(op, agent, results, include_score_threshold) ==
    LET r == get_optimal_context(agent, results, include_score_threshold)
    IN [op |-> op, agent |-> agent, results |-> results, selected |-> r[1],
        tokens |-> r[2], context |-> format_for_context(r[1], r[2])]

BeforeStoryStart ==
    /\ ResultRead
    /\ \E agent \in BudgetAgents, story_results \in Found({"story_outcome"}, SearchLimit),
          error_results \in Found({"error_pattern"}, ErrorSearchLimit) :
           last' = HookReturn("before_story_start", agent, story_results \o error_results, 0)
    /\ UNCHANGED <<store, now>>

BeforeArchitectureDecision ==
    /\ ResultRead
    /\ \E agent \in BudgetAgents, results \in Found({"architecture_decision"}, SearchLimit) :
           last' = HookReturn("before_architecture_decision", agent, results, 700)
    /\ UNCHANGED <<store, now>>

BeforeImplementation ==
    /\ ResultRead
    /\ \E agent \in BudgetAgents,
          results \in Found({"integration_example", "config_pattern"}, SearchLimit) :
           last' = HookReturn("before_implementation", agent, results, 0)
    /\ UNCHANGED <<store, now>>

NextHooks ==
    \/ BeforeStoryStart
    \/ BeforeArchitectureDecision
    \/ BeforeImplementation
    \/ ReadResult

SpecHooks == Init /\ [][NextHooks]_vars

(***************************************************************************)
(* Construction of a MemoryShard on its own: the caller's type, content    *)
(* and created_at reach __post_init__ unchanged.                           *)
(***************************************************************************)
(* "invalid_type" is the value test_memory.py passes as a wrong type *)
ShardTypes == MemoryType \cup {"invalid_type"}

(* content lengths in characters: the 12 characters of "Test content" and
   the lengths one character and one token on each side of every bound *)
ShardLengths ==
    {12, 4 * ShardMinTokens - 4, 4 * ShardMinTokens - 1, 4 * ShardMinTokens,
     4 * ShardMaxTokens, 4 * ShardMaxTokens + 1, 4 * ShardMaxTokens + 4,
     4 * SessionSummaryMaxTokens, 4 * SessionSummaryMaxTokens + 1,
     4 * SessionSummaryMaxTokens + 4}

ShardCreatedAts == {CallerCreatedAt, "2026-01-04", "2026-02-30T10:00:00", "yesterday"}

NewMemoryShard ==
    /\ ResultRead
    /\ \E type \in ShardTypes, n \in ShardLengths, created_at \in ShardCreatedAts :
           LET content == <<Prose("body", n)>>
           IN last' = [op |-> "MemoryShard", type |-> type, content |-> content,
                       created_at |-> created_at,
                       raised |-> ~PostInitOk(content, type, created_at)]
    /\ UNCHANGED <<store, now>>

NextShard ==
    \/ NewMemoryShard
    \/ ReadResult

SpecShard == Init /\ [][NextShard]_vars

(***************************************************************************)
(* The claims.                                                             *)
(***************************************************************************)
IsValidate == last.op = "validate_before_storage"

IsCheck == last.op = "check_for_duplicates"

IsComplete == last.op = "validate_metadata_complete"

(* some element of the list of messages contains the text *)
Mentions(list, text) == \E i \in 1..Len(list) : Contains(list[i], text)

(* a record of the store carries the unique_id, given as a JSON value *)
Stored(unique_id) == \E p \in AllPoints : S(p.payload.unique_id) = unique_id

(* C1: after any sequence of store operations of the producers (the three
   post-work hooks, store_memory, store_batch) no two records of the three
   collections carry the same unique_id. *)
C1_UniqueIdIsGlobal ==
    \A p, q \in AllPoints : p.id # q.id => p.payload.unique_id # q.payload.unique_id

(* C2: once content c is stored by store_memory or store_batch, a call of
   validate_before_storage (duplicate checks on, store reachable) for the same
   bytes under another unique_id fails with an exact-hash duplicate error. *)
C2_SameBytesRejected ==
    (/\ IsValidate
     /\ ~last.skip_duplicate_check /\ ~last.skip_similarity_check
     /\ last.env = "ok" /\ last.lookup = AllOk
     /\ \E p \in AllPoints :
            /\ p.payload.content = last.information
            /\ S(p.payload.unique_id) # Get(last.metadata, "unique_id", S("")))
    => /\ ~last.is_valid
       /\ Mentions(last.details.errors, "DUPLICATE: Similar content found (similarity: 1.00)")

(* C3: whatever the store holds, a candidate whose unique_id is that of a
   stored record of any collection is failed by validate_before_storage
   (duplicate checks on, store reachable) and gets duplicates_found = true
   from check_for_duplicates. *)
C3_StoredIdRejected ==
    /\ (/\ IsValidate
         /\ ~last.skip_duplicate_check /\ last.env = "ok" /\ last.lookup = AllOk
         /\ Stored(Get(last.metadata, "unique_id", S(""))))
        => ~last.is_valid
    /\ (IsCheck /\ last.env = "ok" /\ last.lookup = AllOk /\ Stored(last.unique_id))
        => last.duplicates_found

(* C4: when the lookup of one collection fails otherwise than by "not
   found", what is returned differs from what is returned when that lookup
   completes and finds nothing in the collection. *)
C4_FailedLookupIsReported ==
    \A c \in Collections :
        LET answered == [last.lookup EXCEPT ![c] = "ok"]
            emptied == [store EXCEPT ![c] = {}]
        IN /\ (/\ IsValidate
                /\ ~last.skip_duplicate_check /\ last.env = "ok"
                /\ last.lookup[c] = "error"
                /\ (~last.skip_similarity_check
                    \/ Truthy(Get(last.metadata, "unique_id", S("")))))
               => <<last.is_valid, last.message, last.details>>
                  # validate_before_storage(emptied, last.env, answered, last.information,
                                            last.metadata, last.skip_duplicate_check,
                                            last.skip_similarity_check)
           /\ (IsCheck /\ last.env = "ok" /\ last.lookup[c] = "error")
               => <<last.duplicates_found, last.details>>
                  # check_for_duplicates(emptied, last.env, last.modelEnv, last.encodeOk,
                                         answered, last.other, last.content, last.unique_id,
                                         last.skip_semantic)

DuplicateStages == {"duplicate_unique_id", "similar_content"}

(* C5: when the client of the vector store cannot be obtained and the
   duplicate checks are not skipped, validate_before_storage returns the
   verdict of the metadata and content checks alone, warns that the store
   is unavailable and the duplicate check skipped, and lists no duplicate
   stage in checks_performed. *)
C5_UnavailableStoreIsWarned ==
    (IsValidate /\ ~last.skip_duplicate_check /\ last.env # "ok")
    => /\ last.is_valid
          = (/\ validate_metadata_fields(last.metadata)[1]
             /\ validate_file_references(last.information,
                                         Get(last.metadata, "type", S("")))[1]
             /\ validate_token_budget(last.information)[1])
       /\ \E i \in 1..Len(last.details.warnings) :
              /\ Contains(last.details.warnings[i], "unavailable")
              /\ Contains(last.details.warnings[i], "skipping duplicate check")
       /\ \A i \in 1..Len(last.details.checks_performed) :
              last.details.checks_performed[i] \notin DuplicateStages

(* the client is out of reach while the store holds the candidate's
   unique_id and content, and the candidate passes *)
C5_Witness ==
    /\ IsValidate /\ ~last.skip_duplicate_check /\ last.env = "connection_failed"
    /\ Stored(Get(last.metadata, "unique_id", S("")))
    /\ last.is_valid

(* C6: validate_before_storage and validate_metadata_complete return pass
   exactly when the error list of the report is empty, whatever the warning
   list holds. *)
C6_PassIffNoErrors ==
    (IsValidate \/ IsComplete) => (last.is_valid <=> Len(last.details.errors) = 0)

(* a pass with warnings in the report *)
C6_Witness ==
    /\ IsValidate /\ last.is_valid
    /\ Len(last.details.warnings) > 0 /\ Len(last.details.errors) = 0

(* the unique_id of the mapping does not start with a prefix of its type *)
PrefixMismatch(metadata) ==
    LET prefixes == expected_prefixes(Get(metadata, "type", S("")))
    IN /\ Len(prefixes) > 0
       /\ \A i \in 1..Len(prefixes) :
              ~StartsWith(Fmt(Get(metadata, "unique_id", S(""))), prefixes[i])

(* every check of validate_metadata_complete on one field accepts *)
EachFieldValid(metadata) ==
    /\ validate_json_safety(metadata)[1]
    /\ validate_required_fields(metadata)[1]
    /\ validate_type(metadata)[1]
    /\ validate_importance(metadata)[1]
    /\ validate_agent(metadata)[1]
    /\ validate_group_id(metadata)[1]
    /\ validate_unique_id(metadata)[1]
    /\ validate_created_at(metadata)[1]
    /\ validate_component(metadata)[1]

(* C7: for every type and every unique_id of 5 characters or more that does
   not start with the type's prefix, the other fields being valid,
   validate_metadata_complete returns valid and reports the mismatch in
   warnings, never in errors. *)
C7_PrefixMismatchIsSoft ==
    (/\ IsComplete
     /\ EachFieldValid(last.metadata)
     /\ PyLen(Get(last.metadata, "unique_id", S(""))) >= 5
     /\ PrefixMismatch(last.metadata))
    => /\ last.is_valid
       /\ Mentions(last.details.warnings, "doesn't follow expected format")
       /\ ~Mentions(last.details.errors, "doesn't follow expected format")

(* C8: validate_before_storage rejects every metadata mapping that
   validate_metadata_complete rejects. *)
C8_PipelineRejectsWhatMetadataValidatorRejects ==
    (IsValidate /\ ~validate_metadata_complete(last.metadata)[1]) => ~last.is_valid

(* the content holds no path:line reference of any kind *)
NoReference(content) == \A i \in 1..Len(content) : content[i].ref = "none"

Actionable ==
    {"story_outcome", "error_pattern", "integration_example", "config_pattern",
     "architecture_decision"}

(* C9: for content without any path:line or path:line-range reference and
   metadata whose every field is valid, validate_before_storage fails with a
   location-reference error when the type is one of the five actionable
   types, and reports no location-reference error for any other type. *)
C9_ActionableTypesNeedReference ==
    (IsValidate /\ NoReference(last.information) /\ EachFieldValid(last.metadata))
    => IF Fmt(last.metadata.type) \in Actionable
       THEN /\ ~last.is_valid
            /\ Mentions(last.details.errors, "Missing file:line references")
       ELSE ~Mentions(last.details.errors, "Missing file:line references")

(* an actionable candidate of valid metadata and budget fails on the missing
   reference alone *)
C9_Witness ==
    /\ IsValidate /\ NoReference(last.information) /\ EachFieldValid(last.metadata)
    /\ Fmt(last.metadata.type) = "architecture_decision"
    /\ ~last.is_valid /\ Len(last.details.errors) = 1

(* the quarters of tokens of a selection *)
RECURSIVE SumTokens4(_)
SumTokens4(selected) ==
    IF Len(selected) = 0 THEN 0 ELSE TextLen(selected[1].content) + SumTokens4(Tail(selected))

(* C10: for every agent, candidate list and score cutoff, the token
   estimates (length / 4) of the selection of get_optimal_context sum to no
   more than get_token_limit(agent). *)
C10_SelectionWithinBudget ==
    last.op = "get_optimal_context"
    => SumTokens4(last.selected) <= 4 * get_token_limit(last.agent)

(* the budget, not the cutoff nor the cap, ends the selection *)
C10_Witness ==
    /\ last.op = "get_optimal_context"
    /\ Len(last.results) = MAX_MEMORIES_PER_AGENT
    /\ \A i \in 1..Len(last.results) : last.results[i].score >= last.include_score_threshold
    /\ Len(last.selected) > 0
    /\ Len(last.selected) < Len(last.results)

IsSelect == last.op = "get_optimal_context"

(* the sequence a is the first Len(a) elements of the sequence b *)
IsPrefix(a, b) == Len(a) <= Len(b) /\ a = SubSeq(b, 1, Len(a))

(* the candidates the loop looks at that reach the cutoff, in input order *)
Eligible(results, include_score_threshold) ==
    SelectSeq(SubSeq(results, 1, Min(Len(results), MAX_MEMORIES_PER_AGENT)),
              LAMBDA r : r.score >= include_score_threshold)

(* C11, as stated: for every agent, candidate list and score cutoff the
   selection of get_optimal_context is a prefix of the input list, no
   element skipped in between and none reordered. *)
C11_SelectionIsPrefixOfInput ==
    IsSelect => IsPrefix(last.selected, last.results)

(* C11, amended: the selection is a prefix of the first three candidates
   with those below the cutoff removed, in input order; it is a prefix of
   the input list itself when none of those candidates is below the cutoff. *)
C11_SelectionIsPrefixOfEligible ==
    IsSelect
    => /\ IsPrefix(last.selected, Eligible(last.results, last.include_score_threshold))
       /\ (\A i \in 1..Min(Len(last.results), MAX_MEMORIES_PER_AGENT) :
               last.results[i].score >= last.include_score_threshold)
           => IsPrefix(last.selected, last.results)

(* a candidate below the cutoff is passed over and a later one is selected *)
C11_Witness ==
    /\ IsSelect
    /\ Len(last.results) >= 2
    /\ last.results[1].score < last.include_score_threshold
    /\ Len(last.selected) > 0
    /\ last.selected[1] = last.results[2]

(* the greedy pass over the whole list: a candidate below the cutoff is
   passed over, another is accepted unless the running total would pass the
   ceiling or cap candidates are accepted already, and then the pass ends *)
RECURSIVE GreedyPass(_, _, _, _, _, _, _)
GreedyPass(results, i, accepted, total4, ceiling, cutoff, cap) ==
    IF i > Len(results) THEN accepted
    ELSE IF results[i].score < cutoff
         THEN GreedyPass(results, i + 1, accepted, total4, ceiling, cutoff, cap)
    ELSE IF total4 + TextLen(results[i].content) > 4 * ceiling \/ Len(accepted) >= cap
         THEN accepted
    ELSE GreedyPass(results, i + 1, Append(accepted, results[i]),
                    total4 + TextLen(results[i].content), ceiling, cutoff, cap)

(* C12: get_optimal_context selects what the greedy pass over the whole
   candidate list selects: candidates below the cutoff are passed over and do
   not count toward the cap of 3, the others are accepted in input order
   until one would pass the agent's ceiling or the cap. *)
C12_SelectionIsGreedyPass ==
    IsSelect
    => last.selected = GreedyPass(last.results, 1, <<>>, 0, get_token_limit(last.agent),
                                  last.include_score_threshold, MAX_MEMORIES_PER_AGENT)

IsShard == last.op = "MemoryShard"

(* the upper bound of a type, in tokens; the lower bound is 50 for all *)
MaxTokensOf(type) == IF type = "session_summary" THEN 1500 ELSE 500

(* C13: for every memory type and every content whose estimate, a quarter
   of its length, lies within the bounds of the type, with a created_at
   that parses as a date, the construction succeeds; a content one unit
   below the minimum or one unit above the maximum makes it fail. *)
C13_ShardWithinBoundsIsBuilt ==
    (IsShard /\ last.type \in MemoryType)
    => LET len == TextLen(last.content)
       IN /\ ( /\ len >= 4 * 50
               /\ len <= 4 * MaxTokensOf(last.type)
               /\ FromIsoFormatOk(last.created_at) ) => ~last.raised
          /\ len <= 4 * (50 - 1) => last.raised
          /\ len >= 4 * (MaxTokensOf(last.type) + 1) => last.raised

C13_Witness ==
    /\ IsShard /\ last.type = "story_outcome"
    /\ TextLen(last.content) = 4 * (MaxTokensOf(last.type) + 1)
    /\ FromIsoFormatOk(last.created_at)
    /\ last.raised

(* C14: the construction of a MemoryShard whose type is not one of the
   memory types raises, whatever its content and its other fields. *)
C14_InvalidTypeIsRejected == (IsShard /\ last.type \notin MemoryType) => last.raised

(* route_to_collection of test_collection_routing: the collection a type
   is expected in *)
route_to_collection(memory_type) ==
    IF memory_type = "best_practice" THEN "bmad-best-practices"
    ELSE IF memory_type = "chat_memory" THEN "agent-memory"
    ELSE "bmad-knowledge"

(* C15: the mapping from type to collection is total, and after any
   sequence of store operations every stored shard resides in the one
   collection its type maps to: best_practice in bmad-best-practices,
   chat_memory in agent-memory, every other type in bmad-knowledge. *)
C15_ShardsResideWhereTheirTypeRoutes ==
    /\ \A type \in MemoryType : route_to_collection(type) \in Collections
    /\ \A c \in Collections : \A p \in store[c] : c = route_to_collection(p.payload.type)

(* the place of a stage of checks_performed in the order payload safety,
   metadata fields, location reference, token budget, code-snippet
   advisory, content quality, hash, identifier collision, similarity;
   similar_content is the hash comparison of check_similar_content *)
StageRank(stage) ==
    CASE stage = "json_safety" -> 1
      [] stage = "metadata_fields" -> 2
      [] stage = "file_references" -> 3
      [] stage = "token_budget" -> 4
      [] stage = "code_snippets" -> 5
      [] stage = "content_quality" -> 6
      [] stage \in {"content_hash", "similar_content"} -> 7
      [] stage \in {"duplicate_unique_id", "unique_id_collision"} -> 8
      [] stage = "semantic_similarity" -> 9
      [] OTHER -> 0

InStageOrder(checks) ==
    \A i, j \in 1..Len(checks) : i < j => StageRank(checks[i]) < StageRank(checks[j])

(* C16: in every run of validate_before_storage and of check_for_duplicates
   checks_performed lists the executed stages in the order payload safety,
   metadata fields, location reference, token budget, code-snippet
   advisory, content quality, then the duplicate checks hash, identifier
   collision, similarity. *)
C16_StagesInFixedOrder ==
    (IsValidate \/ (IsCheck /\ last.env = "ok")) => InStageOrder(last.details.checks_performed)

SemanticListed == \E i \in 1..Len(last.details.checks_performed) :
                      last.details.checks_performed[i] = "semantic_similarity"

(* C17: in check_for_duplicates the semantic-similarity check and its
   embedding call are attempted only when the hash check found no match
   and skip_semantic is false; in every other run no embedding is computed
   and semantic_similarity is not in checks_performed. *)
C17_SemanticOnlyAfterHashMiss ==
    IsCheck
    => ((last.encode_calls > 0 \/ SemanticListed)
        => (/\ ~last.skip_semantic
            /\ Len(last.details.duplicates) = 0
            /\ check_hash_duplicate(store, last.lookup,
                                    generate_content_hash(last.content))[2] = <<>>))

C17_Witness ==
    /\ IsCheck /\ last.env = "ok" /\ last.modelEnv = "ok"
    /\ ~last.skip_semantic
    /\ Len(last.details.duplicates) > 0
    /\ last.encode_calls = 0 /\ ~SemanticListed

(* the neighbours the query of a collection returns to the run of last *)
Neighbours(c) ==
    IF last.lookup[c] = "ok"
    THEN LET points == QueryPoints(store, c, last.content, last.other, QueryLimit)
         IN {points[i] : i \in 1..Len(points)}
    ELSE {}

(* the run of last records the neighbour of collection c as a similar finding *)
RecordedSimilar(c, neighbour) ==
    \E i \in 1..Len(last.details.similar) :
        /\ last.details.similar[i].collection = c
        /\ last.details.similar[i].point_id = neighbour.id
        /\ last.details.similar[i].match_type = "semantic"
        /\ last.details.similar[i].similarity = neighbour.score

(* C18: every neighbour a nearest-neighbour query returns is recorded by
   check_semantic_duplicate as a similar finding if and only if its score
   is at least 0.85: a score of exactly 0.85 is recorded and a score of
   0.849 is not. *)
C18_SimilarIffScoreAtLeastThreshold ==
    (IsCheck /\ SemanticListed /\ last.encodeOk)
    => \A c \in Collections : \A neighbour \in Neighbours(c) :
           RecordedSimilar(c, neighbour) <=> neighbour.score >= 850

C18_Witness ==
    /\ IsCheck /\ SemanticListed /\ last.encodeOk
    /\ \E c \in Collections : \E neighbour \in Neighbours(c) :
           neighbour.score = 850 /\ RecordedSimilar(c, neighbour)

(* the run of last found an exact-hash match, a unique_id collision *)
HashMatched == \E i \in 1..Len(last.details.duplicates) :
                   last.details.duplicates[i].match_type = "exact_hash"

IdCollided == last.details.unique_id_collision # PyNone

(* C19: in check_for_duplicates a semantic finding is soft: duplicates_found
   is true if and only if there is at least one exact-hash match or a
   unique_id collision; similar findings never make it true, and the
   report then asks for a review instead of forbidding the store. *)
C19_SimilarFindingsAreSoft ==
    IsCheck
    => /\ last.duplicates_found <=> (HashMatched \/ IdCollided)
       /\ (Len(last.details.similar) > 0 /\ ~HashMatched /\ ~IdCollided)
          => /\ ~last.duplicates_found
             /\ ResultLine(last.duplicates_found, last.details)
                = "RESULT: SIMILAR CONTENT - REVIEW BEFORE STORING"

C19_Witness ==
    /\ IsCheck /\ Len(last.details.similar) > 0
    /\ ~HashMatched /\ ~IdCollided /\ ~last.duplicates_found

OtherMetadataChecks == {"required_fields", "type", "importance", "agent", "group_id",
                        "unique_id", "created_at", "component"}

(* the metadata of the run of last exceeds the size or the depth ceiling *)
PayloadUnsafe ==
    \/ JsonDumpsLen(last.metadata) > MAX_JSON_SIZE
    \/ ~validate_json_safety(last.metadata)[1]

(* C20: when the serialized size of the metadata exceeds the size ceiling
   or its nesting depth exceeds the depth ceiling, validate_metadata_complete
   aborts before any other metadata check is performed, and the violation
   is an unrecoverable input error, not an entry of the list of findings
   the call returns. *)
C20_UnsafePayloadAbortsOutsideFindings ==
    (IsComplete /\ PayloadUnsafe)
    => /\ \A i \in 1..Len(last.details.checks_performed) :
              last.details.checks_performed[i] \notin OtherMetadataChecks
       /\ last.details.errors = <<>>

(* C21: for every JSON-serializable metadata mapping of string keys to
   scalars and arrays and every content, validate_metadata_complete and
   validate_before_storage return a verdict and a report and do not
   raise. *)
C21_ValidatorsDoNotRaise == (IsValidate \/ IsComplete) => ~last.raised

(* a character of an identifier: a letter, a digit or the underscore *)
WordChar(c) ==
    \/ c = "_" \/ IsDigit(c)
    \/ \E i \in 1..26 : SubSeq(LowerLetters, i, i) = c \/ SubSeq(UpperLetters, i, i) = c

(* the message names the field: the name of the field stands in it as a
   whole word *)
NamesField(msg, f) ==
    \E i \in 1..(Len(msg) - Len(f) + 1) :
        /\ SubSeq(msg, i, i + Len(f) - 1) = f
        /\ i = 1 \/ ~WordChar(SubSeq(msg, i - 1, i - 1))
        /\ i + Len(f) > Len(msg) \/ ~WordChar(SubSeq(msg, i + Len(f), i + Len(f)))

ErrorsName(f) == \E i \in 1..Len(last.details.errors) : NamesField(last.details.errors[i], f)

(* the required fields absent from the metadata of the run of last *)
AbsentFields == FieldNames \ DOMAIN last.metadata

(* the required fields that are present hold valid values: with the absent
   fields filled in, every check on one field accepts *)
PresentFieldsValid ==
    EachFieldValid([k \in DOMAIN last.metadata \cup FieldNames |->
                       IF k \in DOMAIN last.metadata THEN last.metadata[k] ELSE BaseMetadata[k]])

(* C22: for every non-empty set M of required fields absent from the
   metadata, validate_metadata_complete returns fail and its first error
   lists exactly the fields of M; when the fields that are present are
   valid, the errors name the fields of M and no other field.  Metadata
   missing only component and agent fails with errors naming exactly
   those two. *)
C22_ErrorsNameExactlyTheMissingFields ==
    (IsComplete /\ ~last.raised /\ ~PayloadUnsafe /\ AbsentFields # {})
    => /\ ~last.is_valid
       /\ last.details.errors[1]
          = "Missing required fields: "
            \o Join(", ", SelectSeq(REQUIRED_FIELDS, LAMBDA f : f \in AbsentFields))
       /\ PresentFieldsValid => \A f \in FieldNames : ErrorsName(f) <=> f \in AbsentFields

SplitError(list) ==
    \E i \in 1..Len(list) : /\ Contains(list[i], "Content exceeds max tokens per shard")
                            /\ Contains(list[i], "Split into multiple shards")

(* C23: validate_before_storage reports the token-budget error, which tells
   the caller to split the content, as a hard error if and only if the
   estimate, the length divided by 4 and rounded down, exceeds 300: an
   estimate of 300 passes this check, an estimate of 301 fails the
   verdict. *)
C23_TokenBudgetErrorIffOverCeiling ==
    (IsValidate /\ ~last.raised)
    => /\ SplitError(last.details.errors) <=> (TextLen(last.information) \div 4 > 300)
       /\ ~SplitError(last.details.warnings)
       /\ SplitError(last.details.errors) => ~last.is_valid

C23_Witness ==
    /\ IsValidate /\ ~last.raised
    /\ TextLen(last.information) \div 4 = 301
    /\ SplitError(last.details.errors) /\ ~last.is_valid

LengthBoundMessage(list) ==
    \E i \in 1..Len(list) : \/ Contains(list[i], "Content too short")
                            \/ Contains(list[i], "Content too long")

(* C24: validate_before_storage fails, with a length-bound error, for
   content shorter than the minimum length of 100 characters or longer
   than the maximum of 50000 characters; of the content-quality checks
   only the placeholder detection is a warning. *)
C24_LengthBoundsAreErrors ==
    (IsValidate /\ ~last.raised
     /\ (TextLen(last.information) < 100 \/ TextLen(last.information) > 50000))
    => /\ ~last.is_valid
       /\ LengthBoundMessage(last.details.errors)
       /\ ~LengthBoundMessage(last.details.warnings)

(* the candidate content of the run of last *)
Candidate == IF IsValidate THEN last.information ELSE last.content

(* the stored records whose content_hash is the digest of the candidate *)
HashMatches ==
    {m \in UNION {{[collection |-> c, point |-> p] : p \in store[c]} : c \in Collections} :
        Get(m.point.payload, "content_hash", "") = Sha256(Candidate)}

(* C25: in every store state in which some record of one of the three
   collections has a stored content_hash equal to the digest of the
   candidate, with the client available, every lookup answering and the
   duplicate and similarity checks enabled, validate_before_storage fails
   and check_for_duplicates returns duplicates_found = true, with one
   finding for every matching record that names its collection and its
   identity. *)
C25_StoredDigestIsHardDuplicate ==
    /\ (IsValidate /\ ~last.raised /\ last.env = "ok" /\ last.lookup = AllOk
        /\ ~last.skip_duplicate_check /\ ~last.skip_similarity_check /\ HashMatches # {})
       => /\ ~last.is_valid
          /\ \A m \in HashMatches : \E i \in 1..Len(last.details.errors) :
                 /\ Contains(last.details.errors[i], "DUPLICATE")
                 /\ Contains(last.details.errors[i], Get(m.point.payload, "unique_id", ""))
                 /\ Contains(last.details.errors[i], m.collection)
    /\ (IsCheck /\ last.env = "ok" /\ last.lookup = AllOk /\ HashMatches # {})
       => /\ last.duplicates_found
          /\ Len(last.details.duplicates) = Cardinality(HashMatches)
          /\ \A m \in HashMatches : \E i \in 1..Len(last.details.duplicates) :
                 /\ last.details.duplicates[i].collection = m.collection
                 /\ last.details.duplicates[i].point_id = m.point.id
                 /\ last.details.duplicates[i].unique_id = Get(m.point.payload, "unique_id", "")

(* the metadata and content checks of the run of last left a hard error *)
HardErrorBeforeDuplicates ==
    \/ ~validate_metadata_fields(last.metadata)[1]
    \/ ~validate_file_references(last.information, Get(last.metadata, "type", S("")))[1]
    \/ ~validate_token_budget(last.information)[1]

(* C26: validate_before_storage looks the vector store up only when the
   metadata and content checks produced no hard error: in a run whose
   error list is not empty after the content checks no duplicate stage is
   in checks_performed and no lookup is issued. *)
C26_NoLookupAfterHardError ==
    (IsValidate /\ ~last.raised /\ HardErrorBeforeDuplicates)
    => /\ \A i \in 1..Len(last.details.checks_performed) :
              last.details.checks_performed[i] \notin DuplicateStages
       /\ last.stdout = <<>>

(* the stored records of the group of the candidate of the run of last *)
SameGroupRecords ==
    {p \in AllPoints : S(Get(p.payload, "group_id", "")) = Get(last.metadata, "group_id", S(""))}

(* C27: the duplicate checks are scoped by group_id: when no stored record
   of the candidate's group carries the candidate's unique_id or digest,
   validate_before_storage reports no duplicate, whatever the records of
   other groups are. *)
C27_DuplicateChecksScopedByGroup ==
    (IsValidate /\ ~last.raised
     /\ \A p \in SameGroupRecords :
            /\ S(Get(p.payload, "unique_id", "")) # Get(last.metadata, "unique_id", S(""))
            /\ Get(p.payload, "content_hash", "") # Sha256(last.information))
    => ~Mentions(last.details.errors, "DUPLICATE")

IsPreWorkHook ==
    last.op \in {"before_story_start", "before_architecture_decision", "before_implementation"}

(* C28: in the pre-work hooks every memory that get_optimal_context
   selected appears in the returned context: format_for_context, called
   with the token total of the selection as max_tokens, drops none. *)
C28_ContextKeepsEverySelectedMemory ==
    IsPreWorkHook
    => /\ Len(last.context) = Len(last.selected)
       /\ \A i \in 1..Len(last.selected) : last.context[i].content = last.selected[i].content

(* C29: when every submission validates and then stores only on a pass,
   one submission at a time and every lookup answering, no two stored
   records share a unique_id, after any number of submissions and for any
   number of records in a collection. *)
C29_ValidateThenStoreKeepsIdsUnique ==
    \A c, d \in Collections : \A p \in store[c], q \in store[d] :
        p.payload.unique_id = q.payload.unique_id => p.id = q.id

(* C30: every content and metadata that validate_before_storage accepts
   with the duplicate checks skipped can be constructed as a MemoryShard
   without raising: the token estimate lies within the bounds of the type
   and created_at parses as a calendar date. *)
C30_AcceptedPairBuildsAShard ==
    (IsValidate /\ ~last.raised /\ last.skip_duplicate_check /\ last.is_valid)
    => PostInitOk(last.information, Fmt(Get(last.metadata, "type", S(""))),
                  Fmt(Get(last.metadata, "created_at", S(""))))

====
